---- MODULE Spec2Model ----
(***************************************************************************)
(* Verification model of the reconciliation engines of portalautomacao:    *)
(*   - conciliacao_bancaria_contabil.py : text normalisation, ledger       *)
(*     readers and the greedy matcher `conciliar`;                         *)
(*   - conciliacao_bancaria_cliente.py  : invoice/receipt netting,         *)
(*     `realizar_matching` and the balance summary.                        *)
(*                                                                         *)
(* Texts are sequences of one-character strings.  Monetary amounts are     *)
(* integers in thousandths of the currency unit (1.00 = 1000), so that the *)
(* rounding to two decimals done by the candidate index is a real          *)
(* conversion.                                                             *)
(***************************************************************************)
EXTENDS Integers, Sequences, FiniteSets, TLC

VARIABLES
    \* --- bank x accounting engine (conciliacao_bancaria_contabil.py)
    fin_rows,       \* raw rows of the sheet "2-Totais"
    cont_rows,      \* raw rows of the sheet "3-Lancamentos Contabeis"
    col_data,       \* which of the two sheets carry a DATA column
    tolerancia,     \* conciliar(..., tolerancia=...)
    min_len,        \* conciliar(..., min_len=...)
    fin_df,         \* ler_financeiro's data frame (sequence of records)
    cont_df,        \* ler_contabil's data frame (sequence of records)
    usados_cont,    \* conciliar: set of consumed accounting index labels
    out,            \* conciliar: list of result rows
    pos,            \* conciliar: position of the financial loop
    pc,             \* position in processar_conciliacao
    \* --- invoice x receipt engine (conciliacao_bancaria_cliente.py)
    razao,          \* data rows of the sheet "Lancamentos Contabeis"
    data_inicio,    \* ConciliacaoCliente.data_inicio
    data_fim,       \* ConciliacaoCliente.data_fim
    row_num,        \* processar_lancamentos: position of the row loop
    lancamentos,    \* ConciliacaoCliente.lancamentos
    saldo_inicial,  \* ConciliacaoCliente.saldo_inicial
    nfs,            \* ConciliacaoCliente.nfs (dict, insertion ordered)
    recebimentos,   \* ConciliacaoCliente.recebimentos (dict, insertion ordered)
    matches,        \* ConciliacaoCliente.matches
    nao_encontrados_nf,
    nao_encontrados_rec,
    saldo_final,    \* criar_aba_resumo: saldo_final
    pc_cli,         \* position in processar_conciliacao_cliente
    \* --- normalisation applied twice
    txt_in,         \* a raw text
    txt_n1,         \* normalizar_texto(txt_in)
    txt_n2,         \* normalizar_texto(txt_n1)
    pc_norm,
    \* --- processar_conciliacao around conciliar: workbooks, review, output
    esquema,        \* sheet names and columns of the two uploaded workbooks
    erro,           \* the exception that ended the run ("" while none)
    possiveis,      \* encontrar_possiveis_matches_data_valor's frame
    arquivo,        \* the workbook written to output_xlsx (Vazio: not written)
    \* --- a second run of the matcher on the same frames
    usados2,        \* usados_cont of the second run
    out2,           \* out of the second run
    pos2,           \* position of the second run's financial loop
    possiveis2,     \* the review frame of the second run
    pc2,            \* position of the second run
    \* --- the workbook of the invoice x receipt engine
    abas_cli,       \* sheet names of the uploaded ledger workbook
    erro_cli,       \* the exception that ended the run ("" while none)
    arquivo_cli,    \* the report saved at output_path (Vazio: not saved)
    \* --- the amount parsers applied to one cell
    celula,         \* a cell value as the spreadsheet library hands it over
    res_to_float_br,
    res_parse_valor,
    pc_parse,
    \* --- two requests of the web host
    uploads,        \* the files of UPLOAD_FOLDER, by path
    saidas,         \* the files of CONCILIACAO_OUTPUT_FOLDER, by path
    reqs,           \* the requests in flight, by request
    \* --- the confrontation with the receivables sheet
    planilha_fin,   \* the workbook at arquivo_financeiro_path, if any
    confronto       \* confronto_data

bankVars == <<fin_rows, cont_rows, col_data, tolerancia, min_len, fin_df, cont_df,
              usados_cont, out, pos, pc>>
cliVars  == <<razao, data_inicio, data_fim, row_num, lancamentos, saldo_inicial, nfs, recebimentos, matches,
              nao_encontrados_nf, nao_encontrados_rec, saldo_final, pc_cli>>
normVars == <<txt_in, txt_n1, txt_n2, pc_norm>>
pipeVars == <<esquema, erro, possiveis, arquivo, usados2, out2, pos2, possiveis2, pc2,
              abas_cli, erro_cli, arquivo_cli>>
parseVars == <<celula, res_to_float_br, res_parse_valor, pc_parse>>
hostVars == <<uploads, saidas, reqs>>
confVars == <<planilha_fin, confronto>>
outrasVars == <<pipeVars, parseVars, hostVars, confVars>>
vars     == <<bankVars, cliVars, normVars, outrasVars>>

-----------------------------------------------------------------------------
(* Characters and elementary string functions (Python str / re semantics). *)

LowerCase == <<"a","b","c","d","e","f","g","h","i","j","k","l","m",
               "n","o","p","q","r","s","t","u","v","w","x","y","z">>
UpperCase == <<"A","B","C","D","E","F","G","H","I","J","K","L","M",
               "N","O","P","Q","R","S","T","U","V","W","X","Y","Z">>
Digits    == {"0","1","2","3","4","5","6","7","8","9"}
Letters   == {UpperCase[i] : i \in DOMAIN UpperCase}

IsDigit(c) == c \in Digits
IsAZ(c)    == c \in Letters

\* str.upper() on one character
UpperChar(c) ==
    IF \E i \in DOMAIN LowerCase : LowerCase[i] = c
    THEN UpperCase[CHOOSE i \in DOMAIN LowerCase : LowerCase[i] = c]
    ELSE c

\* str.upper()
ToUpper(s) == [i \in DOMAIN s |-> UpperChar(s[i])]

Range(f) == {f[i] : i \in DOMAIN f}

Abs(x) == IF x < 0 THEN -x ELSE x
Min(a, b) == IF a <= b THEN a ELSE b
Max(a, b) == IF a >= b THEN a ELSE b

\* s[n:] with 0-based n, i.e. drop the first n characters
DropFirst(s, n) == IF n >= Len(s) THEN <<>> ELSE SubSeq(s, n + 1, Len(s))

\* s[:-n], i.e. drop the last n characters
DropLast(s, n) == IF n >= Len(s) THEN <<>> ELSE SubSeq(s, 1, Len(s) - n)

\* str.startswith
StartsWith(s, p) == Len(p) <= Len(s) /\ SubSeq(s, 1, Len(p)) = p

\* `sub in s`
Contains(s, sub) ==
    \E i \in 0..(Len(s) - Len(sub)) : SubSeq(s, i + 1, i + Len(sub)) = sub

\* str.strip() (blanks only)
RECURSIVE LStrip(_)
LStrip(s) == IF s # <<>> /\ s[1] = " " THEN LStrip(Tail(s)) ELSE s
RECURSIVE RStrip(_)
RStrip(s) == IF s # <<>> /\ s[Len(s)] = " " THEN RStrip(DropLast(s, 1)) ELSE s
Strip(s) == RStrip(LStrip(s))

\* re.sub(r"[^...]", "", s): keep only the characters of the class Keep
RECURSIVE Filter(_, _)
Filter(s, Keep) ==
    IF s = <<>> THEN <<>>
    ELSE IF s[1] \in Keep THEN <<s[1]>> \o Filter(Tail(s), Keep)
         ELSE Filter(Tail(s), Keep)

AZ09 == Letters \cup Digits

\* length of the maximal run of characters of class K that starts at 1-based i
RECURSIVE RunLen(_, _, _)
RunLen(s, i, K) ==
    IF i > Len(s) THEN 0
    ELSE IF s[i] \notin K THEN 0 ELSE 1 + RunLen(s, i + 1, K)

-----------------------------------------------------------------------------
(* Extractor / normaliser                                                  *)

prefixos_comuns ==
    << <<"M","E","D","-">>, <<"F","T","-">>, <<"D","P","-">>, <<"B","O","L","-">>,
       <<"N","F","-">>, <<"R","C","-">>, <<"F","O","L","-">>,
       <<"M","E","D">>, <<"F","T">>, <<"D","P">>, <<"B","O","L">>,
       <<"N","F">>, <<"R","C">>, <<"F","O","L">> >>

\* the `for p in prefixos_comuns: ... break` loop: the first prefix in list
\* order that the upper-cased text starts with is cut off, once
CortarPrefixo(txt) ==
    LET hits == {k \in DOMAIN prefixos_comuns : StartsWith(ToUpper(txt), prefixos_comuns[k])}
    IN  IF hits = {} THEN txt
        ELSE LET k == CHOOSE k \in hits : \A j \in hits : k <= j
             IN  DropFirst(txt, Len(prefixos_comuns[k]))

\* re.sub(r"-[A-Z]$", "", txt)
CortarSufixoLetra(txt) ==
    IF Len(txt) >= 2 /\ txt[Len(txt) - 1] = "-" /\ IsAZ(txt[Len(txt)])
    THEN DropLast(txt, 2) ELSE txt

\* re.sub(r"-\d{1,2}$", "", txt)
CortarSufixoNumero(txt) ==
    IF Len(txt) >= 3 /\ txt[Len(txt) - 2] = "-" /\ IsDigit(txt[Len(txt) - 1])
       /\ IsDigit(txt[Len(txt)])
    THEN DropLast(txt, 3)
    ELSE IF Len(txt) >= 2 /\ txt[Len(txt) - 1] = "-" /\ IsDigit(txt[Len(txt)])
         THEN DropLast(txt, 2) ELSE txt

limpar_prefixo(txt) ==
    IF txt = <<>> THEN <<>>
    ELSE CortarSufixoNumero(CortarSufixoLetra(CortarPrefixo(Strip(txt))))

normalizar_texto(txt) ==
    Filter(Strip(ToUpper(limpar_prefixo(txt))), AZ09)

extrair_numeros(txt) ==
    IF txt = <<>> THEN <<>> ELSE Filter(limpar_prefixo(txt), Digits)

Spaces == {" "}

\* re.search(r"([K]{n,})", s): the leftmost maximal run of at least n
\* characters of class K; <<>> when there is none
HasRun(s, K, n) == \E i \in 1..Len(s) : RunLen(s, i, K) >= n
FirstRun(s, K, n) ==
    LET i == CHOOSE i \in 1..Len(s) :
                 /\ RunLen(s, i, K) >= n
                 /\ \A j \in 1..(i - 1) : RunLen(s, j, K) < n
    IN  SubSeq(s, i, i + RunLen(s, i, K) - 1)

\* re.search(r"([A-Z]{2,}\d{4,})", s)
LetrasDigitosEm(s, i) ==
    /\ RunLen(s, i, Letters) >= 2
    /\ RunLen(s, i + RunLen(s, i, Letters), Digits) >= 4
HasLetrasDigitos(s) == \E i \in 1..Len(s) : LetrasDigitosEm(s, i)
FirstLetrasDigitos(s) ==
    LET i == CHOOSE i \in 1..Len(s) :
                 /\ LetrasDigitosEm(s, i)
                 /\ \A j \in 1..(i - 1) : ~LetrasDigitosEm(s, j)
        l == RunLen(s, i, Letters)
    IN  SubSeq(s, i, i + l + RunLen(s, i + l, Digits) - 1)

\* re.sub(r"^\d+\s*-\s*", "", texto)   (removes a leading "5 -")
CortarNumeroInicial(s) ==
    LET d  == RunLen(s, 1, Digits)
        sp == RunLen(s, d + 1, Spaces)
    IN  IF d >= 1 /\ d + sp + 1 <= Len(s) /\ s[d + sp + 1] = "-"
        THEN DropFirst(s, d + sp + 1 + RunLen(s, d + sp + 2, Spaces))
        ELSE s

extrair_identificador_fin(texto) ==
    IF texto = <<>> THEN <<>>
    ELSE LET t == CortarNumeroInicial(limpar_prefixo(texto))
         IN  IF HasRun(t, Digits, 6) THEN FirstRun(t, Digits, 6)
             ELSE IF HasLetrasDigitos(t) THEN FirstLetrasDigitos(t)
             ELSE t

\* re.search(r"5\s*-?\s*(\d{6,})", s): where group 1 starts for a "5" at i
\* (0 when the pattern does not match at i)
Grupo5Em(s, i) ==
    IF s[i] # "5" THEN 0
    ELSE LET a == i + 1 + RunLen(s, i + 1, Spaces)
             g == IF a <= Len(s) /\ s[a] = "-"
                  THEN a + 1 + RunLen(s, a + 1, Spaces) ELSE a
         IN  IF RunLen(s, g, Digits) >= 6 THEN g ELSE 0
HasGrupo5(s) == \E i \in 1..Len(s) : Grupo5Em(s, i) # 0
FirstGrupo5(s) ==
    LET i == CHOOSE i \in 1..Len(s) :
                 /\ Grupo5Em(s, i) # 0
                 /\ \A j \in 1..(i - 1) : Grupo5Em(s, j) = 0
        g == Grupo5Em(s, i)
    IN  SubSeq(s, g, g + RunLen(s, g, Digits) - 1)

\* the clean-up of the captured group: drop a trailing letter when the
\* identifier holds a run of six digits
AjustarIdent(ident) ==
    IF HasRun(ident, Digits, 6) /\ ident # <<>> /\ IsAZ(ident[Len(ident)])
    THEN DropLast(ident, 1) ELSE ident

extrair_identificador_contabil(historico) ==
    IF historico = <<>> THEN <<>>
    ELSE IF HasGrupo5(historico) THEN AjustarIdent(FirstGrupo5(historico))
    ELSE IF HasRun(historico, Digits, 9) THEN AjustarIdent(FirstRun(historico, Digits, 9))
    ELSE IF HasLetrasDigitos(historico) THEN AjustarIdent(FirstLetrasDigitos(historico))
    ELSE IF HasRun(historico, AZ09, 6) THEN AjustarIdent(FirstRun(historico, AZ09, 6))
    ELSE <<>>

-----------------------------------------------------------------------------
(* Bank x accounting engine: inputs                                        *)

\* A date is a one-element tuple holding its day number; NaT, the empty tuple,
\* is a missing / unparseable date (pandas NaT, or None without the column).
NaT == <<>>
Dia(d) == d[1]
\* A source reference of a result row is <<index label>>; Vazio marks a side
\* with no source record.
Vazio == <<>>

\* bounds of the explored ledgers
MaxFin  == 2
MaxCont == 2

T_FT12345   == <<"F","T","-","1","2","3","4","5">>
T_ALUGUEL   == <<"A","L","U","G","U","E","L">>
T_AB        == <<"A","B">>
T_123456X9  == <<"1","2","3","4","5","6"," ","X","9">>
H_PAGTO     == <<"P","A","G","T","O"," ","F","T","1","2","3","4","5"," ",
                 "F","O","R","N","E","C","E","D","O","R">>
H_REF5      == <<"R","E","F"," ","5","-","1","2","3","4","5","6">>
H_ALUGUEL   == <<"A","L","U","G","U","E","L"," ","S","A","L","A">>
H_12345     == <<"1","2","3","4","5">>

\* raw rows of the financial sheet: PREFIXO/TITULO, OPERACAO, ENTRADAS, SAIDAS, DATA
FinCatalog ==
    { [titulo |-> T_FT12345,  operacao |-> <<>>,       entradas |-> 0,      saidas |-> 1500000, data |-> <<10>>],
      [titulo |-> T_FT12345,  operacao |-> <<>>,       entradas |-> 0,      saidas |-> 1500010, data |-> <<12>>],
      [titulo |-> T_ALUGUEL,  operacao |-> <<>>,       entradas |-> 1500000, saidas |-> 0,      data |-> <<10>>],
      [titulo |-> T_AB,       operacao |-> <<>>,       entradas |-> 0,      saidas |-> 1500000, data |-> NaT],
      [titulo |-> <<>>,       operacao |-> T_123456X9, entradas |-> 980000, saidas |-> 0,       data |-> <<10>>] }

\* raw rows of the accounting sheet: HISTORICO, DEBITO, CREDITO, DATA
ContCatalog ==
    { [historico |-> H_PAGTO,   debito |-> 0,       credito |-> 1500000, data |-> <<11>>],
      [historico |-> H_PAGTO,   debito |-> 0,       credito |-> 1500026, data |-> <<11>>],
      [historico |-> H_REF5,    debito |-> 980000,  credito |-> 0,       data |-> NaT],
      [historico |-> H_ALUGUEL, debito |-> 1500000, credito |-> 0,       data |-> <<14>>],
      [historico |-> H_12345,   debito |-> 1500000, credito |-> 0,       data |-> <<10>>] }

\* all sequences over S of length at most n
SeqsUpTo(S, n) == UNION {[1..k -> S] : k \in 0..n}

Tolerancias == {5, 10, 50}      \* 0.005, 0.01 (the default), 0.05
MinLens     == {3}              \* the default, and the value the web route passes
ColDataOpcoes ==
    { [fin |-> TRUE,  cont |-> TRUE],
      [fin |-> TRUE,  cont |-> FALSE],
      [fin |-> FALSE, cont |-> FALSE] }

\* the (tolerancia, date columns) pairs explored: every tolerance and every
\* choice of date columns occurs, the default tolerance with and without dates
Configuracoes ==
    { [tol |-> 10, col |-> [fin |-> TRUE,  cont |-> TRUE]],
      [tol |-> 10, col |-> [fin |-> FALSE, cont |-> FALSE]],
      [tol |-> 5,  col |-> [fin |-> TRUE,  cont |-> FALSE]],
      [tol |-> 50, col |-> [fin |-> FALSE, cont |-> FALSE]] }

\* the ledgers of the whole-pipeline runs: tied candidates whose amounts
\* differ, a pair that only date and amount bring together, rows the readers
\* drop, and blank rows that push the index labels of the rows after them
T_FT == <<"F","T">>
FinCatalogP ==
    { [titulo |-> T_FT12345,  operacao |-> <<>>, entradas |-> 0,       saidas |-> 1500000, data |-> <<10>>],
      [titulo |-> T_ALUGUEL,  operacao |-> <<>>, entradas |-> 1500000, saidas |-> 0,       data |-> <<10>>],
      [titulo |-> T_FT,       operacao |-> <<>>, entradas |-> 0,       saidas |-> 1500000, data |-> <<10>>],
      [titulo |-> T_AB,       operacao |-> <<>>, entradas |-> 0,       saidas |-> 1500000, data |-> NaT] }
ContCatalogP ==
    { [historico |-> H_PAGTO, debito |-> 0,       credito |-> 1500000, data |-> <<11>>],
      [historico |-> H_PAGTO, debito |-> 0,       credito |-> 1500010, data |-> <<11>>],
      [historico |-> H_12345, debito |-> 1500000, credito |-> 0,       data |-> <<10>>] }
LinhaEmBranco == [historico |-> <<>>, debito |-> 0, credito |-> 0, data |-> NaT]
LinhasEmBranco == {0, 7}
Brancas(n) == [i \in 1..n |-> LinhaEmBranco]
ToleranciasPipeline == {10}     \* tolerancia=0.01, what the web route passes

\* the ledgers of the review-pass runs: two financial records with the same
\* text and different dates, an accounting record with evidence and one that
\* only date and amount bring near, an amount between the two tolerances
FinCatalogR ==
    { [titulo |-> T_ALUGUEL,  operacao |-> <<>>, entradas |-> 1500000, saidas |-> 0,       data |-> <<10>>],
      [titulo |-> T_ALUGUEL,  operacao |-> <<>>, entradas |-> 1500000, saidas |-> 0,       data |-> <<20>>],
      [titulo |-> T_FT12345,  operacao |-> <<>>, entradas |-> 0,       saidas |-> 1500000, data |-> <<10>>],
      [titulo |-> T_AB,       operacao |-> <<>>, entradas |-> 0,       saidas |-> 1500000, data |-> NaT] }
\* the ledgers of the reader runs: one column filled, none, both, and
\* negative cells
FinCatalogL ==
    { [titulo |-> T_FT12345, operacao |-> <<>>, entradas |-> 0,       saidas |-> 1500000, data |-> NaT],
      [titulo |-> T_ALUGUEL, operacao |-> <<>>, entradas |-> 1500000, saidas |-> 0,       data |-> NaT],
      [titulo |-> T_ALUGUEL, operacao |-> <<>>, entradas |-> 0,       saidas |-> 0,       data |-> NaT],
      [titulo |-> T_FT12345, operacao |-> <<>>, entradas |-> 200000,  saidas |-> 1500000, data |-> NaT],
      [titulo |-> T_FT12345, operacao |-> <<>>, entradas |-> 0,       saidas |-> -50000,  data |-> NaT],
      [titulo |-> T_ALUGUEL, operacao |-> <<>>, entradas |-> -50000,  saidas |-> 0,       data |-> NaT] }
ContCatalogL ==
    { [historico |-> H_PAGTO,   debito |-> 0,       credito |-> 1500000, data |-> NaT],
      [historico |-> H_ALUGUEL, debito |-> 1500000, credito |-> 0,       data |-> NaT],
      [historico |-> H_ALUGUEL, debito |-> 0,       credito |-> 0,       data |-> NaT],
      [historico |-> H_PAGTO,   debito |-> 1500000, credito |-> 200000,  data |-> NaT],
      [historico |-> H_ALUGUEL, debito |-> -50000,  credito |-> 0,       data |-> NaT],
      [historico |-> H_PAGTO,   debito |-> 0,       credito |-> -50000,  data |-> NaT] }
ContCatalogR ==
    { [historico |-> H_ALUGUEL, debito |-> 1500000, credito |-> 0,       data |-> <<10>>],
      [historico |-> H_12345,   debito |-> 1500000, credito |-> 0,       data |-> <<20>>],
      [historico |-> H_PAGTO,   debito |-> 0,       credito |-> 1500015, data |-> <<11>>] }

-----------------------------------------------------------------------------
(* Workbooks: sheet names and columns                                      *)

ABA_2TOTAIS     == <<"2","-","T","o","t","a","i","s">>
ABA_3LANC       == <<"3","-","L","a","n","c","a","m","e","n","t","o","s"," ",
                     "C","o","n","t","a","b","e","i","s">>
ABA_3RESUMO     == <<"3","-","R","e","s","u","m","o">>
ABA_PLAN1       == <<"P","l","a","n","1">>
ABA_LANCAMENTOS == <<"L","a","n","c","a","m","e","n","t","o","s"," ",
                     "C","o","n","t","a","b","e","i","s">>

\* obrig of ler_financeiro and of ler_contabil (DATA is optional: col_data)
ColunasObrigFin  == {"OPERACAO", "PREFIXO/TITULO", "ENTRADAS", "SAIDAS"}
ColunasObrigCont == {"HISTORICO", "DEBITO", "CREDITO"}

\* the workbooks of the whole-pipeline runs: the expected ones, another sheet
\* whose name starts with 3, and one sheet or one column missing on either side
EsquemaOpcoes ==
    { [ abas_fin  |-> <<ABA_2TOTAIS>>, colunas_fin  |-> ColunasObrigFin,
        abas_cont |-> <<ABA_3LANC>>,   colunas_cont |-> ColunasObrigCont ],
      [ abas_fin  |-> <<ABA_PLAN1, ABA_2TOTAIS>>, colunas_fin  |-> ColunasObrigFin,
        abas_cont |-> <<ABA_PLAN1, ABA_3RESUMO>>, colunas_cont |-> ColunasObrigCont ],
      [ abas_fin  |-> <<ABA_PLAN1>>,   colunas_fin  |-> ColunasObrigFin,
        abas_cont |-> <<ABA_3LANC>>,   colunas_cont |-> ColunasObrigCont ],
      [ abas_fin  |-> <<ABA_2TOTAIS>>, colunas_fin  |-> ColunasObrigFin \ {"SAIDAS"},
        abas_cont |-> <<ABA_3LANC>>,   colunas_cont |-> ColunasObrigCont ],
      [ abas_fin  |-> <<ABA_2TOTAIS>>, colunas_fin  |-> ColunasObrigFin,
        abas_cont |-> <<ABA_PLAN1>>,   colunas_cont |-> ColunasObrigCont ],
      [ abas_fin  |-> <<ABA_2TOTAIS>>, colunas_fin  |-> ColunasObrigFin,
        abas_cont |-> <<ABA_3LANC>>,   colunas_cont |-> ColunasObrigCont \ {"DEBITO"} ] }

\* the workbooks the readers were written for
EsquemaEsperado ==
    [ abas_fin  |-> <<ABA_2TOTAIS>>, colunas_fin  |-> ColunasObrigFin,
      abas_cont |-> <<ABA_3LANC>>,   colunas_cont |-> ColunasObrigCont ]

\* pd.read_excel(path, sheet_name="2-Totais") finds the sheet by its exact name
TemAba2Totais(abas) == \E i \in DOMAIN abas : abas[i] = ABA_2TOTAIS

\* the names _encontrar_aba is called with by ler_contabil
NOME_3 == <<"3","-">>
nomes_possiveis == <<ABA_3LANC, ABA_3LANC, NOME_3>>

\* nome.split()[0] if " " in nome else nome[:5]
PrefixoDoNome(nome) ==
    IF \E i \in DOMAIN nome : nome[i] = " "
    THEN SubSeq(nome, 1, (CHOOSE i \in DOMAIN nome :
                             nome[i] = " " /\ \A j \in 1..(i - 1) : nome[j] # " ") - 1)
    ELSE SubSeq(nome, 1, Min(5, Len(nome)))

\* the three tests of _encontrar_aba on one sheet and one accepted name
AbaCompativel(sheet, nome) ==
    \/ sheet = nome
    \/ StartsWith(ToUpper(sheet), ToUpper(PrefixoDoNome(nome)))
    \/ nome # <<>> /\ IsDigit(nome[1]) /\ sheet # <<>> /\ sheet[1] = nome[1]

\* _encontrar_aba: position of the first compatible sheet (0: ValueError)
encontrar_aba(abas) ==
    LET ok == {i \in DOMAIN abas :
                  \E n \in DOMAIN nomes_possiveis : AbaCompativel(abas[i], nomes_possiveis[n])}
    IN  IF ok = {} THEN 0 ELSE CHOOSE i \in ok : \A j \in ok : i <= j

\* `for col in obrig: if col not in df.columns: raise ValueError`
FaltaColuna(colunas, obrig) == obrig \ colunas # {}

\* ler_financeiro gets past its sheet and column checks
EsquemaFinOK(e)  == TemAba2Totais(e.abas_fin) /\ ~FaltaColuna(e.colunas_fin, ColunasObrigFin)

\* mutant: ler_contabil without its checks
EsquemaContSemVerificar(e) == TRUE

\* ler_contabil gets past its sheet and column checks
EsquemaContOK(e) == encontrar_aba(e.abas_cont) # 0 /\ ~FaltaColuna(e.colunas_cont, ColunasObrigCont)

-----------------------------------------------------------------------------
(* Ledger readers                                                          *)

T_NAN == <<"N","A","N">>

\* TEXTO_FIN: PREFIXO/TITULO, or OPERACAO when the former is empty or "nan"
TextoFin(row) ==
    LET t == Strip(row.titulo)
    IN  IF t = <<>> \/ ToUpper(t) = T_NAN THEN Strip(row.operacao) ELSE t

\* one row of ler_financeiro's frame; idx is the pandas index label
LinhaFin(row, idx, temData) ==
    LET texto == TextoFin(row)
    IN  [ idx               |-> idx,
          TEXTO_FIN         |-> texto,
          TEXTO_FIN_NORM    |-> normalizar_texto(texto),
          TEXTO_FIN_NUM     |-> extrair_numeros(texto),
          IDENTIFICADOR_FIN |-> extrair_identificador_fin(texto),
          ENTRADAS_F        |-> row.entradas,
          SAIDAS_F          |-> row.saidas,
          TIPO_FIN          |-> IF row.saidas > 0 THEN "SAIDA" ELSE "ENTRADA",
          VALOR_FIN         |-> IF row.saidas > 0 THEN row.saidas ELSE row.entradas,
          DATA_FIN          |-> IF temData THEN row.data ELSE NaT ]

\* mutant: only the zero-amount filter
ManterFinSoValor(r) == r.VALOR_FIN # 0

\* "remove linhas zeradas / vazias"
ManterFin(r) == r.VALOR_FIN # 0 /\ Len(r.TEXTO_FIN_NORM) > 0

\* the apply() columns depend on the row alone: they are tabulated once per
\* catalogue row and the index label is filled in per position
ColunasFin == [row \in FinCatalog \cup FinCatalogP \cup FinCatalogR \cup FinCatalogL, temData \in BOOLEAN |-> LinhaFin(row, 0, temData)]

ler_financeiro(rows, temData) ==
    SelectSeq([i \in DOMAIN rows |-> [ColunasFin[rows[i], temData] EXCEPT !.idx = i - 1]],
              ManterFin)

LinhaCont(row, idx, temData) ==
    LET texto == Strip(row.historico)
    IN  [ idx            |-> idx,
          HIST_TXT       |-> texto,
          HIST_NORM      |-> normalizar_texto(texto),
          HIST_NUM       |-> extrair_numeros(texto),
          IDENTIFICADOR  |-> extrair_identificador_contabil(texto),
          DEBITO_F       |-> row.debito,
          CREDITO_F      |-> row.credito,
          TIPO_CONTABIL  |-> IF row.debito > 0 THEN "DEBITO" ELSE "CREDITO",
          VALOR_CONTABIL |-> IF row.debito > 0 THEN row.debito ELSE row.credito,
          DATA_CONTABIL  |-> IF temData THEN row.data ELSE NaT ]

ManterCont(r) == r.VALOR_CONTABIL # 0 /\ Len(r.HIST_NORM) > 0

ColunasCont == [row \in ContCatalog \cup ContCatalogP \cup ContCatalogR \cup ContCatalogL \cup {LinhaEmBranco}, temData \in BOOLEAN |-> LinhaCont(row, 0, temData)]

ler_contabil(rows, temData) ==
    SelectSeq([i \in DOMAIN rows |-> [ColunasCont[rows[i], temData] EXCEPT !.idx = i - 1]],
              ManterCont)

-----------------------------------------------------------------------------
(* conciliar                                                               *)


\* round(v, 2) on an amount in thousandths: the nearest hundredth (a tie,
\* which no catalogue amount hits, goes to the even hundredth)
Round2(v) ==
    LET lo == v - (v % 10)
        r  == v % 10
    IN  IF r < 5 THEN lo
        ELSE IF r > 5 THEN lo + 10
        ELSE IF (lo \div 10) % 2 = 0 THEN lo ELSE lo + 10

\* usar_data = ("DATA_FIN" in fin_df.columns) and ("DATA_CONTABIL" in cont_df.columns)
usar_data == col_data.fin /\ col_data.cont

\* mutant: the counter types swapped
TipoContTrocado(tipo_fin) == IF tipo_fin = "ENTRADA" THEN "CREDITO" ELSE "DEBITO"

\* "DEBITO" if tipo_fin == "ENTRADA" else "CREDITO"
TipoContEsperado(tipo_fin) == IF tipo_fin = "ENTRADA" THEN "DEBITO" ELSE "CREDITO"

\* the rounded amounts probed in the index cont_by_val_tipo
ChavesValor(v, tol) ==
    LET base == Round2(v)
    IN  IF tol >= 10
        THEN {base, Round2(base - 10), Round2(base + 10), Round2(base - 20), Round2(base + 20)}
        ELSE {base}

\* candidatos_por_valor_tipo: positions in cont_df of the records filed under
\* one of the probed (rounded amount, counter type) keys
candidatos_por_valor_tipo(v, tipo_fin, tol) ==
    {k \in DOMAIN cont_df :
        /\ Round2(cont_df[k].VALOR_CONTABIL) \in ChavesValor(v, tol)
        /\ cont_df[k].TIPO_CONTABIL = TipoContEsperado(tipo_fin)}

\* mutant: the consumed set is never consulted
JaUsadoNunca(idx_c, usados) == FALSE

\* `if idx_c in usados_cont: continue`
JaUsado(idx_c, usados) == idx_c \in usados

\* mutant: the amount test is left to the index lookup alone
ForaToleranciaNunca(v_fin, v_c, tol) == FALSE

\* `if abs(v_fin - v_c) > tolerancia: continue`
ForaTolerancia(v_fin, v_c, tol) == Abs(v_fin - v_c) > tol

\* `if r["TIPO_CONTABIL"] != tipo_cont_esperado: continue`
TipoDiferente(tipo_cont, tipo_fin) == tipo_cont # TipoContEsperado(tipo_fin)

\* mutant: the date window is never applied
DataDistanteNunca(data_fin, data_cont) == FALSE

\* `if usar_data and notna(data_fin) and notna(data_cont): if abs(days) > 1: continue`
DataDistante(data_fin, data_cont) ==
    usar_data /\ data_fin # NaT /\ data_cont # NaT /\ Abs(Dia(data_fin) - Dia(data_cont)) > 1

match_texto(f, r) == Contains(r.HIST_NORM, f.TEXTO_FIN_NORM)
match_num(f, r) ==
    /\ f.TEXTO_FIN_NUM # <<>>
    /\ r.HIST_NUM # <<>>
    /\ Contains(r.HIST_NUM, f.TEXTO_FIN_NUM)
match_id(f, r) ==
    /\ f.IDENTIFICADOR_FIN # <<>>
    /\ r.IDENTIFICADOR # <<>>
    /\ Len(f.IDENTIFICADOR_FIN) >= 6
    /\ Contains(r.IDENTIFICADOR, f.IDENTIFICADOR_FIN)

\* mutant: amount and type are enough
SemEvidenciaIgnorada(f, r) == FALSE

\* `if not (match_texto or match_num or match_id): continue`
SemEvidencia(f, r) == ~(match_texto(f, r) \/ match_num(f, r) \/ match_id(f, r))

\* the candidates that reach score_match for the financial record f
Elegiveis(f, usados) ==
    {k \in candidatos_por_valor_tipo(f.VALOR_FIN, f.TIPO_FIN, tolerancia) :
        /\ ~JaUsado(cont_df[k].idx, usados)
        /\ ~ForaTolerancia(f.VALOR_FIN, cont_df[k].VALOR_CONTABIL, tolerancia)
        /\ ~TipoDiferente(cont_df[k].TIPO_CONTABIL, f.TIPO_FIN)
        /\ ~DataDistante(f.DATA_FIN, cont_df[k].DATA_CONTABIL)
        /\ ~SemEvidencia(f, cont_df[k])}

\* score_match, as the fraction ScoreNum / ScoreDen (bonuses in tenths)
BonusDecimos(f, r) ==
      (IF StartsWith(r.HIST_NORM, f.TEXTO_FIN_NORM) THEN 2 ELSE 0)
    + (IF match_num(f, r) THEN 3 ELSE 0)
    + (IF match_id(f, r) THEN 5 ELSE 0)
    + (IF usar_data /\ f.DATA_FIN # NaT /\ r.DATA_CONTABIL # NaT
       THEN (IF Abs(Dia(f.DATA_FIN) - Dia(r.DATA_CONTABIL)) = 0 THEN 5
             ELSE IF Abs(Dia(f.DATA_FIN) - Dia(r.DATA_CONTABIL)) = 1 THEN 3 ELSE 0)
       ELSE 0)
ScoreDen(f, r) == 10 * Max(Len(r.HIST_NORM), 1)
ScoreNum(f, r) ==
    IF f.TEXTO_FIN_NORM = <<>> \/ r.HIST_NORM = <<>> THEN 0
    ELSE 10 * Min(Len(f.TEXTO_FIN_NORM), Max(Len(r.HIST_NORM), 1))
         + BonusDecimos(f, r) * Max(Len(r.HIST_NORM), 1)
\* score(f, a) > score(f, b)
ScoreMaior(f, a, b) == ScoreNum(f, a) * ScoreDen(f, b) > ScoreNum(f, b) * ScoreDen(f, a)

\* `keys`: the probed amounts in the order the code lists them
ChavesLista(v, tol) ==
    LET base == Round2(v)
    IN  IF tol >= 10
        THEN <<base, Round2(base - 10), Round2(base + 10), Round2(base - 20), Round2(base + 20)>>
        ELSE <<base>>

\* cont_by_val_tipo.get(k, []): the index labels filed under one key, in frame order
Balde(chave, tipo_cont) ==
    LET ks == SelectSeq([k \in DOMAIN cont_df |-> k],
                        LAMBDA k : /\ Round2(cont_df[k].VALOR_CONTABIL) = chave
                                   /\ cont_df[k].TIPO_CONTABIL = tipo_cont)
    IN  [n \in DOMAIN ks |-> cont_df[ks[n]].idx]

\* `cand`: the buckets of the probed keys, concatenated
RECURSIVE EstenderCand(_, _, _)
EstenderCand(chaves, tipo_cont, n) ==
    IF n = 0 THEN <<>>
    ELSE EstenderCand(chaves, tipo_cont, n - 1) \o Balde(chaves[n], tipo_cont)

\* list(set(cand)) in CPython: a set of at most four int labels lives in an
\* 8-slot table, label h going to slot h mod 8 and, when that is taken, along
\* the probe sequence i -> (5i + 1 + perturb) mod 8 with perturb shifted right
\* by five bits at every probe; the list is the table read slot by slot.  A
\* fifth label moves the set to a 32-slot table, where labels below 32 never
\* collide and therefore come out ascending.
TabelaVazia == [i \in 0..7 |-> -1]
RECURSIVE Sondar(_, _, _, _)
Sondar(tab, h, i, perturb) ==
    IF tab[i] = -1 \/ tab[i] = h THEN i
    ELSE Sondar(tab, h, (i * 5 + 1 + (perturb \div 32)) % 8, perturb \div 32)
Inserir(tab, h) == [tab EXCEPT ![Sondar(tab, h, h % 8, h)] = h]
RECURSIVE Tabela(_, _)
Tabela(lista, n) == IF n = 0 THEN TabelaVazia ELSE Inserir(Tabela(lista, n - 1), lista[n])
RECURSIVE Crescente(_)
Crescente(S) ==
    IF S = {} THEN <<>>
    ELSE LET m == CHOOSE x \in S : \A y \in S : x <= y IN <<m>> \o Crescente(S \ {m})
RECURSIVE Ocupados(_, _)
Ocupados(tab, i) ==
    IF i > 7 THEN <<>>
    ELSE (IF tab[i] = -1 THEN <<>> ELSE <<tab[i]>>) \o Ocupados(tab, i + 1)
OrdemSet(lista) ==
    IF Cardinality(Range(lista)) > 4 THEN Crescente(Range(lista))
    ELSE Ocupados(Tabela(lista, Len(lista)), 0)

\* `cand_idxs`: the index labels in the order the candidate loop visits them
cand_idxs(v, tipo_fin, tol) ==
    OrdemSet(EstenderCand(ChavesLista(v, tol), TipoContEsperado(tipo_fin),
                          Len(ChavesLista(v, tol))))

\* cont_df.loc[idx_c]: the position in the frame of an index label
PosDoIdx(idx_c) == CHOOSE k \in DOMAIN cont_df : cont_df[k].idx = idx_c

\* the candidate loop with `if sc > melhor_score`: the candidates are visited
\* in the order of cand_idxs and a later candidate wins only with a strictly
\* greater score.  Position in cont_df of the winner (0: none).
melhor_idx(f, usados) ==
    LET E   == Elegiveis(f, usados)
        ord == cand_idxs(f.VALOR_FIN, f.TIPO_FIN, tolerancia)
        V   == {n \in DOMAIN ord : PosDoIdx(ord[n]) \in E}
    IN  IF E = {} THEN 0
        ELSE PosDoIdx(ord[CHOOSE n \in V :
               /\ \A j \in V : ~ScoreMaior(f, cont_df[PosDoIdx(ord[j])], cont_df[PosDoIdx(ord[n])])
               /\ \A j \in V : j < n =>
                      ScoreMaior(f, cont_df[PosDoIdx(ord[n])], cont_df[PosDoIdx(ord[j])])])

\* mutant: the consumed set is reset to the record just matched
MarcarUsadoSoUltimo(usados, idx_c) == {idx_c}

\* `usados_cont.add(melhor_idx)`
MarcarUsado(usados, idx_c) == usados \cup {idx_c}

\* `if len(txt_norm) < min_len and len(id_fin) < min_len: continue`
Ruido(f) == Len(f.TEXTO_FIN_NORM) < min_len /\ Len(f.IDENTIFICADOR_FIN) < min_len

\* the result rows; fin_ref / cont_ref record the index label of the source
\* record on each side (Vazio when that side is empty)
LinhaOK(f, r) ==
    [ STATUS |-> "OK",
      DATA_RELATORIO_FINANCEIRO |-> IF usar_data THEN f.DATA_FIN ELSE NaT,
      TIPO_RELATORIO_FINANCEIRO |-> f.TIPO_FIN,
      TEXTO_RELATORIO_FINANCEIRO |-> f.TEXTO_FIN,
      VALOR_RELATORIO_FINANCEIRO |-> f.VALOR_FIN,
      DATA_RELATORIO_CONTABIL |-> r.DATA_CONTABIL,
      TIPO_RELATORIO_CONTABIL |-> r.TIPO_CONTABIL,
      HISTORICO_RELATORIO_CONTABIL |-> r.HIST_TXT,
      VALOR_RELATORIO_CONTABIL |-> r.VALOR_CONTABIL,
      DIF |-> Abs(f.VALOR_FIN - r.VALOR_CONTABIL),
      OBS |-> "Conciliado automaticamente",
      fin_ref |-> <<f.idx>>, cont_ref |-> <<r.idx>> ]

LinhaDivergenteFin(f) ==
    [ STATUS |-> "DIVERGENTE",
      DATA_RELATORIO_FINANCEIRO |-> IF usar_data THEN f.DATA_FIN ELSE NaT,
      TIPO_RELATORIO_FINANCEIRO |-> f.TIPO_FIN,
      TEXTO_RELATORIO_FINANCEIRO |-> f.TEXTO_FIN,
      VALOR_RELATORIO_FINANCEIRO |-> f.VALOR_FIN,
      DATA_RELATORIO_CONTABIL |-> NaT,
      TIPO_RELATORIO_CONTABIL |-> "",
      HISTORICO_RELATORIO_CONTABIL |-> <<>>,
      VALOR_RELATORIO_CONTABIL |-> 0,
      DIF |-> f.VALOR_FIN,
      OBS |-> "Nao conciliado",
      fin_ref |-> <<f.idx>>, cont_ref |-> Vazio ]

LinhaSobraCont(r) ==
    [ STATUS |-> "DIVERGENTE",
      DATA_RELATORIO_FINANCEIRO |-> NaT,
      TIPO_RELATORIO_FINANCEIRO |-> "",
      TEXTO_RELATORIO_FINANCEIRO |-> <<>>,
      VALOR_RELATORIO_FINANCEIRO |-> 0,
      DATA_RELATORIO_CONTABIL |-> r.DATA_CONTABIL,
      TIPO_RELATORIO_CONTABIL |-> r.TIPO_CONTABIL,
      HISTORICO_RELATORIO_CONTABIL |-> r.HIST_TXT,
      VALOR_RELATORIO_CONTABIL |-> r.VALOR_CONTABIL,
      DIF |-> r.VALOR_CONTABIL,
      OBS |-> "Sem correspondencia no Financeiro",
      fin_ref |-> Vazio, cont_ref |-> <<r.idx>> ]

\* mutant: the loop over the leftovers without `if idx_c not in usados_cont`
SobrasContTodas(usados) == [i \in DOMAIN cont_df |-> LinhaSobraCont(cont_df[i])]

\* "Sobras do Contabil": the records not in usados_cont, in frame order
SobrasCont(usados) ==
    LET livres == SelectSeq(cont_df, LAMBDA r : r.idx \notin usados)
    IN  [i \in DOMAIN livres |-> LinhaSobraCont(livres[i])]

-----------------------------------------------------------------------------
(* Idle values of the engines a specification does not run                 *)

BankIdle ==
    /\ fin_rows = <<>> /\ cont_rows = <<>>
    /\ col_data = [fin |-> FALSE, cont |-> FALSE]
    /\ tolerancia = 10 /\ min_len = 3
    /\ fin_df = <<>> /\ cont_df = <<>> /\ usados_cont = {} /\ out = <<>>
    /\ pos = 0 /\ pc = "parado"

CliIdle ==
    /\ razao = <<>> /\ data_inicio = NaT /\ data_fim = NaT
    /\ row_num = 0 /\ lancamentos = <<>> /\ saldo_inicial = 0
    /\ nfs = <<>> /\ recebimentos = <<>> /\ matches = <<>>
    /\ nao_encontrados_nf = <<>> /\ nao_encontrados_rec = <<>>
    /\ saldo_final = 0 /\ pc_cli = "parado"

NormIdle ==
    /\ txt_in = <<>> /\ txt_n1 = <<>> /\ txt_n2 = <<>> /\ pc_norm = "parado"

\* the second run, idle
Run2Idle ==
    /\ usados2 = {} /\ out2 = <<>> /\ pos2 = 0 /\ possiveis2 = <<>> /\ pc2 = "parado"

\* well-formed workbooks, nothing raised, nothing reviewed or written yet
PipeIdle ==
    /\ esquema = EsquemaEsperado /\ erro = ""
    /\ possiveis = <<>> /\ arquivo = Vazio
    /\ Run2Idle
    /\ abas_cli = <<ABA_LANCAMENTOS>> /\ erro_cli = "" /\ arquivo_cli = Vazio

ParseIdle ==
    /\ celula = [tipo |-> "None"] /\ res_to_float_br = Vazio /\ res_parse_valor = Vazio
    /\ pc_parse = "parado"

HostIdle ==
    /\ uploads = <<>> /\ saidas = <<>> /\ reqs = <<>>

\* no receivables workbook, confronto_data = None
SemConfronto ==
    [feito |-> FALSE, saldo_financeiro |-> 0, qtd_titulos |-> 0,
     encontrados |-> <<>>, nao_encontrados |-> <<>>, total_nao_matcheadas |-> 0]
ConfIdle ==
    /\ planilha_fin = [existe |-> FALSE, linhas |-> <<>>]
    /\ confronto = SemConfronto

OutrasIdle == PipeIdle /\ ParseIdle /\ HostIdle /\ ConfIdle

-----------------------------------------------------------------------------
(* processar_conciliacao: the readers, then conciliar record by record     *)

InitBank ==
    /\ fin_rows \in SeqsUpTo(FinCatalog, MaxFin)
    /\ cont_rows \in SeqsUpTo(ContCatalog, MaxCont)
    /\ \E cfg \in Configuracoes : tolerancia = cfg.tol /\ col_data = cfg.col
    /\ min_len \in MinLens
    /\ fin_df = <<>> /\ cont_df = <<>> /\ usados_cont = {} /\ out = <<>>
    /\ pos = 0 /\ pc = "ler_financeiro"
    /\ CliIdle /\ NormIdle /\ OutrasIdle

LerFinanceiro ==
    /\ pc = "ler_financeiro"
    /\ EsquemaFinOK(esquema)
    /\ fin_df' = ler_financeiro(fin_rows, col_data.fin)
    /\ pc' = "ler_contabil"
    /\ UNCHANGED <<fin_rows, cont_rows, col_data, tolerancia, min_len, cont_df,
                   usados_cont, out, pos>>
    /\ UNCHANGED <<cliVars, normVars, outrasVars>>

LerContabil ==
    /\ pc = "ler_contabil"
    /\ EsquemaContOK(esquema)
    /\ cont_df' = ler_contabil(cont_rows, col_data.cont)
    /\ pos' = 1
    /\ pc' = "conciliar"
    /\ UNCHANGED <<fin_rows, cont_rows, col_data, tolerancia, min_len, fin_df,
                   usados_cont, out>>
    /\ UNCHANGED <<cliVars, normVars, outrasVars>>

\* one pass of `for _, f in fin_df.iterrows()` that hits the noise filter
PularRuido ==
    /\ pc = "conciliar" /\ pos <= Len(fin_df)
    /\ Ruido(fin_df[pos])
    /\ pos' = pos + 1
    /\ UNCHANGED <<fin_rows, cont_rows, col_data, tolerancia, min_len, fin_df,
                   cont_df, usados_cont, out, pc>>
    /\ UNCHANGED <<cliVars, normVars, outrasVars>>

\* one pass of the loop that finds a best candidate
EmitirOK ==
    /\ pc = "conciliar" /\ pos <= Len(fin_df)
    /\ ~Ruido(fin_df[pos])
    /\ LET m == melhor_idx(fin_df[pos], usados_cont)
       IN  /\ m # 0
           /\ usados_cont' = MarcarUsado(usados_cont, cont_df[m].idx)
           /\ out' = Append(out, LinhaOK(fin_df[pos], cont_df[m]))
    /\ pos' = pos + 1
    /\ UNCHANGED <<fin_rows, cont_rows, col_data, tolerancia, min_len, fin_df,
                   cont_df, pc>>
    /\ UNCHANGED <<cliVars, normVars, outrasVars>>

\* one pass of the loop that finds none
EmitirDivergente ==
    /\ pc = "conciliar" /\ pos <= Len(fin_df)
    /\ ~Ruido(fin_df[pos])
    /\ melhor_idx(fin_df[pos], usados_cont) = 0
    /\ out' = Append(out, LinhaDivergenteFin(fin_df[pos]))
    /\ pos' = pos + 1
    /\ UNCHANGED <<fin_rows, cont_rows, col_data, tolerancia, min_len, fin_df,
                   cont_df, usados_cont, pc>>
    /\ UNCHANGED <<cliVars, normVars, outrasVars>>

\* the loop over the accounting leftovers, and the return of the frame
EmitirSobras ==
    /\ pc = "conciliar" /\ pos > Len(fin_df)
    /\ out' = out \o SobrasCont(usados_cont)
    /\ pc' = "conciliado"
    /\ UNCHANGED <<fin_rows, cont_rows, col_data, tolerancia, min_len, fin_df,
                   cont_df, usados_cont, pos>>
    /\ UNCHANGED <<cliVars, normVars, outrasVars>>

Next ==
    \/ LerFinanceiro
    \/ LerContabil
    \/ PularRuido
    \/ EmitirOK
    \/ EmitirDivergente
    \/ EmitirSobras

Spec == InitBank /\ [][Next]_vars

-----------------------------------------------------------------------------
(* Invoice x receipt engine (ConciliacaoCliente)                           *)

\* esta_no_intervalo: a missing or unparseable date is outside the window
esta_no_intervalo(data) ==
    IF data = NaT THEN FALSE
    ELSE Dia(data_inicio) <= Dia(data) /\ Dia(data) <= Dia(data_fim)

SepDoc == {" ", ":"}        \* the class [\s:]

\* text s has the upper-cased word w at 1-based position i
PalavraEm(s, i, w) ==
    i + Len(w) - 1 <= Len(s) /\ ToUpper(SubSeq(s, i, i + Len(w) - 1)) = w

\* [\s:]+(\d...) tried at position a: where the digits start (0: no match)
SepDigitos(s, a, n) ==
    LET r == RunLen(s, a, SepDoc)
    IN  IF r >= 1 /\ RunLen(s, a + r, Digits) >= n THEN a + r ELSE 0

\* r'NF[SE:]?[\s:]+(\d+)' with re.IGNORECASE, tried at i
GrupoNFEm(s, i) ==
    IF ~PalavraEm(s, i, <<"N","F">>) THEN 0
    ELSE LET j      == i + 2
             viaOpt == IF j <= Len(s) /\ UpperChar(s[j]) \in {"S", "E", ":"}
                       THEN SepDigitos(s, j + 1, 1) ELSE 0
         IN  IF viaOpt # 0 THEN viaOpt ELSE SepDigitos(s, j, 1)

\* r'ISS[:\s]+(\d+)' with re.IGNORECASE, tried at i
GrupoISSEm(s, i) ==
    IF ~PalavraEm(s, i, <<"I","S","S">>) THEN 0 ELSE SepDigitos(s, i + 3, 1)

\* the maximal digit run that starts at g
DigitosEm(s, g) == SubSeq(s, g, g + RunLen(s, g, Digits) - 1)

\* processar_nf: the number of the invoice a line belongs to (<<>>: none)
numero_nf(historico) ==
    LET s  == historico
        nf == {i \in 1..Len(s) : GrupoNFEm(s, i) # 0}
        is == {i \in 1..Len(s) : GrupoISSEm(s, i) # 0}
        first(S) == CHOOSE i \in S : \A j \in S : i <= j
    IN  IF nf # {} THEN DigitosEm(s, GrupoNFEm(s, first(nf)))
        ELSE IF is # {} THEN DigitosEm(s, GrupoISSEm(s, first(is)))
        ELSE IF HasRun(s, Digits, 9) THEN SubSeq(FirstRun(s, Digits, 9), 1, 9)
        ELSE IF HasRun(s, Digits, 6) THEN FirstRun(s, Digits, 6)
        ELSE <<>>

\* (?:ND)?(\d{6,}) tried at e: where the digits start (0: no match)
NDDigitos(s, e) ==
    IF PalavraEm(s, e, <<"N","D">>) /\ RunLen(s, e + 2, Digits) >= 6 THEN e + 2
    ELSE IF RunLen(s, e, Digits) >= 6 THEN e ELSE 0

\* r'RECEBIM.*?[:\s]+(?:ND)?(\d{6,})' with re.IGNORECASE: the lazy .*? stops
\* at the first separator run after RECEBIM that is followed by the number
GrupoRecebim(s) ==
    LET occ == {i \in 1..Len(s) : PalavraEm(s, i, <<"R","E","C","E","B","I","M">>)}
    IN  IF occ = {} THEN 0
        ELSE LET i  == CHOOSE i \in occ : \A j \in occ : i <= j
                 qs == {q \in (i + 7)..Len(s) :
                          s[q] \in SepDoc /\ NDDigitos(s, q + RunLen(s, q, SepDoc)) # 0}
             IN  IF qs = {} THEN 0
                 ELSE LET q == CHOOSE q \in qs : \A j \in qs : q <= j
                      IN  NDDigitos(s, q + RunLen(s, q, SepDoc))

\* r'ND(\d{6,})' with re.IGNORECASE, tried at i
GrupoNDEm(s, i) ==
    IF PalavraEm(s, i, <<"N","D">>) /\ RunLen(s, i + 2, Digits) >= 6 THEN i + 2 ELSE 0

\* processar_recebimento: the number of the receipt a line belongs to
numero_rec(historico) ==
    LET s  == historico
        nd == {i \in 1..Len(s) : GrupoNDEm(s, i) # 0}
    IN  IF GrupoRecebim(s) # 0 THEN DigitosEm(s, GrupoRecebim(s))
        ELSE IF nd # {} THEN DigitosEm(s, GrupoNDEm(s, CHOOSE i \in nd : \A j \in nd : i <= j))
        ELSE IF HasRun(s, Digits, 7) THEN FirstRun(s, Digits, 7)
        ELSE IF HasRun(s, Digits, 6) THEN FirstRun(s, Digits, 6)
        ELSE <<>>

\* the lot prefixes and the ledger texts of the runs explored
LOTE_NF  == <<"0","0","8","8","2","0","0","0","1">>
LOTE_REC == <<"0","0","8","8","5","0","0","0","1">>
T_RECEBIM == <<"R","E","C","E","B","I","M">>
H_NFS2902  == <<"N","F","S",":"," ","0","0","0","0","0","2","9","0","2">>
H_ND670    == <<"R","E","F",".","R","E","C","E","B","I","M",".","C","R",":"," ","N","D","1","0","0","0","6","7","0">>
H_NF2903   == <<"N","F",":"," ","0","0","0","0","0","2","9","0","3">>
H_REC2900  == <<"R","E","F",".","R","E","C","E","B","I","M",".","C","R",":"," ","3"," "," ","0","0","0","0","0","2","9","0","0">>
H_RECND671 == <<"R","E","C","E","B","I","M","E","N","T","O"," ","N","D","1","0","0","0","6","7","1">>
H_NF2904   == <<"N","F",":"," ","0","0","0","0","0","2","9","0","4">>

H_RECNF2905 == <<"R","E","C","E","B","I","M"," ","N","F"," ","0","0","0","0","0","2","9","0","5">>
H_AJUSTE   == <<"A","J","U","S","T","E">>
H_NF000    == <<"N","F",":"," ","0","0","0">>
LOTE_OUTRO == <<"0","0","1">>

HistoricosRazao == {H_NFS2902, H_ND670, H_NF2903, H_REC2900, H_RECND671, H_NF2904,
                    H_RECNF2905, H_AJUSTE, H_NF000, <<>>}

\* the extraction of each ledger text, computed once
NumeroNF  == [h \in HistoricosRazao |-> numero_nf(h)]
NumeroRec == [h \in HistoricosRazao |-> numero_rec(h)]
\* 'RECEBIM' in str(historico).upper()
TemRecebim == [h \in HistoricosRazao |-> Contains(ToUpper(h), T_RECEBIM)]

\* the bucket of `numero` in an insertion-ordered dict (a sequence of buckets)
TemBucket(buckets, numero) == \E k \in DOMAIN buckets : buckets[k].numero = numero
PosBucket(buckets, numero) == CHOOSE k \in DOMAIN buckets : buckets[k].numero = numero

BucketNovo(numero) ==
    [numero |-> numero, total_debito |-> 0, total_credito |-> 0,
     valor_liquido |-> 0, lancamentos |-> <<>>]

\* mutant: the totals are overwritten by the line instead of added to
AcumularSemSomar(buckets, numero, lanc, sinal) ==
    LET bs == IF TemBucket(buckets, numero) THEN buckets
              ELSE Append(buckets, BucketNovo(numero))
        k  == PosBucket(bs, numero)
    IN  [bs EXCEPT ![k] = [numero        |-> numero,
                           total_debito  |-> lanc.debito,
                           total_credito |-> lanc.credito,
                           valor_liquido |-> sinal * (lanc.debito - lanc.credito),
                           lancamentos   |-> Append(bs[k].lancamentos, lanc.linha)]]

\* the body of `if nf_match:` / `if rec_match:`; sinal is +1 for an invoice
\* (debit - credit) and -1 for a receipt (credit - debit)
Acumular(buckets, numero, lanc, sinal) ==
    LET bs == IF TemBucket(buckets, numero) THEN buckets
              ELSE Append(buckets, BucketNovo(numero))
        k  == PosBucket(bs, numero)
        td == bs[k].total_debito + lanc.debito
        tc == bs[k].total_credito + lanc.credito
    IN  [bs EXCEPT ![k] = [numero        |-> numero,
                           total_debito  |-> td,
                           total_credito |-> tc,
                           valor_liquido |-> sinal * (td - tc),
                           lancamentos   |-> Append(bs[k].lancamentos, lanc.linha)]]

processar_nf(buckets, lanc) ==
    IF NumeroNF[lanc.historico] = <<>> THEN buckets
    ELSE Acumular(buckets, NumeroNF[lanc.historico], lanc, 1)

processar_recebimento(buckets, lanc) ==
    IF NumeroRec[lanc.historico] = <<>> THEN buckets
    ELSE Acumular(buckets, NumeroRec[lanc.historico], lanc, -1)


\* `if historico and lote and str(lote).startswith('008820001')`
RotaNF(lanc) ==
    lanc.historico # <<>> /\ lanc.lote # <<>> /\ StartsWith(lanc.lote, LOTE_NF)

\* mutant: the receipt keyword is not looked for
RotaRecSoLote(lanc) == lanc.lote # <<>> /\ StartsWith(lanc.lote, LOTE_REC)

\* `if (lote and str(lote).startswith('008850001')) or
\*     (historico and 'RECEBIM' in str(historico).upper())`
RotaRec(lanc) ==
    \/ lanc.lote # <<>> /\ StartsWith(lanc.lote, LOTE_REC)
    \/ lanc.historico # <<>> /\ TemRecebim[lanc.historico]

\* realizar_matching ------------------------------------------------------

\* `if abs(nf['valor_liquido'] - rec['valor_liquido']) < Decimal('0.01')`
ValoresIguais(nf, rec) == Abs(nf.valor_liquido - rec.valor_liquido) < 10

Match(nf, rec) ==
    [nf_numero |-> nf.numero, nf_valor |-> nf.valor_liquido,
     rec_numero |-> rec.numero, rec_valor |-> rec.valor_liquido,
     diferenca |-> nf.valor_liquido - rec.valor_liquido]

\* the inner loop `for num_rec, rec in self.recebimentos.items()` for one NF
MatchesDaNF(nf, recs) ==
    LET hits == SelectSeq(recs, LAMBDA rec : ValoresIguais(nf, rec))
    IN  [k \in DOMAIN hits |-> Match(nf, hits[k])]

\* the outer loop `for num_nf, nf in self.nfs.items()`
RECURSIVE MatchesDe(_, _)
MatchesDe(ns, recs) ==
    IF ns = <<>> THEN <<>>
    ELSE MatchesDaNF(Head(ns), recs) \o MatchesDe(Tail(ns), recs)

nfs_matcheadas(ms)  == {ms[k].nf_numero : k \in DOMAIN ms}
recs_matcheados(ms) == {ms[k].rec_numero : k \in DOMAIN ms}

\* mutant: the membership test inverted
NaoEncontradosInvertido(buckets, matcheados) ==
    SelectSeq(buckets, LAMBDA b : b.numero \in matcheados)

\* `if num not in matcheados: self.nao_encontrados.append(bucket)`
NaoEncontrados(buckets, matcheados) ==
    SelectSeq(buckets, LAMBDA b : b.numero \notin matcheados)

\* criar_aba_resumo ---------------------------------------------------------

\* sum(b['valor_liquido'] for b in buckets.values())
RECURSIVE TotalLiquido(_)
TotalLiquido(buckets) ==
    IF buckets = <<>> THEN 0
    ELSE Head(buckets).valor_liquido + TotalLiquido(Tail(buckets))

\* mutant: the receipts added instead of subtracted
SaldoFinalSomandoRecebimentos(si, ns, recs) == si + TotalLiquido(ns) + TotalLiquido(recs)

\* saldo_final = self.saldo_inicial + total_nfs - total_recebimentos
CalcularSaldoFinal(si, ns, recs) == si + TotalLiquido(ns) - TotalLiquido(recs)

\* inputs ---------------------------------------------------------------------

MaxLinhas == 4


\* rows of the ledger sheet: DATA, LOTE, HISTORICO, DEBITO, CREDITO
RazaoCatalog ==
    { [data |-> <<5>>,  lote |-> LOTE_NF,  historico |-> H_NFS2902,  debito |-> 980000,  credito |-> 0],
      [data |-> <<6>>,  lote |-> LOTE_REC, historico |-> H_ND670,    debito |-> 0,       credito |-> 980000],
      [data |-> <<7>>,  lote |-> LOTE_NF,  historico |-> H_NF2903,   debito |-> 5000000, credito |-> 0],
      [data |-> <<8>>,  lote |-> LOTE_REC, historico |-> H_REC2900,  debito |-> 0,       credito |-> 4200000],
      [data |-> <<9>>,  lote |-> LOTE_REC, historico |-> H_RECND671, debito |-> 0,       credito |-> 980000],
      [data |-> <<10>>, lote |-> LOTE_NF,  historico |-> H_NF2904,   debito |-> 980000,  credito |-> 0],
      [data |-> <<40>>, lote |-> LOTE_NF,  historico |-> H_NF2903,   debito |-> 100000,  credito |-> 0] }

SaldosIniciais == {0, 1000000}
JanelaInicio == <<1>>
JanelaFim    == <<31>>

-----------------------------------------------------------------------------
(* processar_conciliacao_cliente                                           *)

InitCli ==
    /\ razao \in SeqsUpTo(RazaoCatalog, MaxLinhas)
    /\ saldo_inicial \in SaldosIniciais
    /\ data_inicio = JanelaInicio /\ data_fim = JanelaFim
    /\ row_num = 1 /\ lancamentos = <<>>
    /\ nfs = <<>> /\ recebimentos = <<>> /\ matches = <<>>
    /\ nao_encontrados_nf = <<>> /\ nao_encontrados_rec = <<>>
    /\ saldo_final = 0 /\ pc_cli = "processar_lancamentos"
    /\ BankIdle /\ NormIdle /\ OutrasIdle

\* the dict of one row; the data rows start at sheet row 3
Lancamento(row, n) ==
    [linha |-> n + 2, data |-> row.data, lote |-> row.lote,
     historico |-> row.historico, debito |-> row.debito, credito |-> row.credito]

\* a row outside the date window: `continue`
PularForaIntervalo ==
    /\ pc_cli = "processar_lancamentos" /\ row_num <= Len(razao)
    /\ ~esta_no_intervalo(razao[row_num].data)
    /\ row_num' = row_num + 1
    /\ UNCHANGED <<razao, data_inicio, data_fim, lancamentos, saldo_inicial, nfs,
                   recebimentos, matches, nao_encontrados_nf, nao_encontrados_rec,
                   saldo_final, pc_cli>>
    /\ UNCHANGED <<bankVars, normVars, outrasVars>>

\* a row inside the window: recorded, then routed to the NF and/or receipt side
ProcessarLinha ==
    /\ pc_cli = "processar_lancamentos" /\ row_num <= Len(razao)
    /\ esta_no_intervalo(razao[row_num].data)
    /\ LET lanc == Lancamento(razao[row_num], row_num)
       IN  /\ lancamentos' = Append(lancamentos, lanc)
           /\ nfs' = IF RotaNF(lanc) THEN processar_nf(nfs, lanc) ELSE nfs
           /\ recebimentos' = IF RotaRec(lanc) THEN processar_recebimento(recebimentos, lanc)
                              ELSE recebimentos
    /\ row_num' = row_num + 1
    /\ UNCHANGED <<razao, data_inicio, data_fim, saldo_inicial, matches,
                   nao_encontrados_nf, nao_encontrados_rec, saldo_final, pc_cli>>
    /\ UNCHANGED <<bankVars, normVars, outrasVars>>

RealizarMatching ==
    /\ pc_cli = "processar_lancamentos" /\ row_num > Len(razao)
    /\ matches' = matches \o MatchesDe(nfs, recebimentos)
    /\ nao_encontrados_nf' =
           nao_encontrados_nf \o NaoEncontrados(nfs, nfs_matcheadas(MatchesDe(nfs, recebimentos)))
    /\ nao_encontrados_rec' =
           nao_encontrados_rec \o NaoEncontrados(recebimentos, recs_matcheados(MatchesDe(nfs, recebimentos)))
    /\ pc_cli' = "relatorio"
    /\ UNCHANGED <<razao, data_inicio, data_fim, row_num, lancamentos, saldo_inicial,
                   nfs, recebimentos, saldo_final>>
    /\ UNCHANGED <<bankVars, normVars, outrasVars>>

CriarAbaResumo ==
    /\ pc_cli = "relatorio"
    /\ saldo_final' = CalcularSaldoFinal(saldo_inicial, nfs, recebimentos)
    /\ pc_cli' = "fim"
    /\ UNCHANGED <<razao, data_inicio, data_fim, row_num, lancamentos, saldo_inicial,
                   nfs, recebimentos, matches, nao_encontrados_nf, nao_encontrados_rec>>
    /\ UNCHANGED <<bankVars, normVars, outrasVars>>

NextCli ==
    \/ PularForaIntervalo
    \/ ProcessarLinha
    \/ RealizarMatching
    \/ CriarAbaResumo

SpecCli == InitCli /\ [][NextCli]_vars

-----------------------------------------------------------------------------
(* confrontar_titulos: the unmatched invoices against the receivables      *)

\* re.findall(r'\d+', ref_str): the maximal digit runs of a reference
NumerosDaRef(ref) ==
    {SubSeq(ref, i, i + RunLen(ref, i, Digits) - 1) :
        i \in {j \in 1..Len(ref) : ref[j] \in Digits /\ (j = 1 \/ ref[j - 1] \notin Digits)}}

\* `titulos`: column B of the rows from 2 on, stripped, blanks left out
TitulosDe(linhas) ==
    SelectSeq([i \in DOMAIN linhas |-> Strip(linhas[i].b)], LAMBDA t : t # <<>>)

\* `refs_financeiro`: every number of every reference and the reference in
\* upper case
RefsFinanceiro(titulos) ==
    UNION {NumerosDaRef(titulos[i]) \cup {ToUpper(titulos[i])} : i \in DOMAIN titulos}

\* numero_nf.lstrip('0')
RECURSIVE SemZerosEsquerda(_)
SemZerosEsquerda(s) ==
    IF s # <<>> /\ Head(s) = "0" THEN SemZerosEsquerda(Tail(s)) ELSE s

\* the two tests of the loop `for ref in titulos`
RefContem(ref, num_nf) ==
    \/ Contains(ref, num_nf)
    \/ SemZerosEsquerda(num_nf) # <<>> /\ Contains(ref, SemZerosEsquerda(num_nf))

\* mutant: only the direct match counts
AchouSoDireto(num_nf, titulos) == num_nf \in RefsFinanceiro(titulos)

\* `achou` after the direct match and the loop over titulos
Achou(num_nf, titulos) ==
    \/ num_nf \in RefsFinanceiro(titulos)
    \/ \E i \in DOMAIN titulos : RefContem(titulos[i], num_nf)

\* `referencia_encontrada`: the number itself on a direct match, else the
\* first reference that contains it
ReferenciaEncontrada(num_nf, titulos) ==
    IF num_nf \in RefsFinanceiro(titulos) THEN num_nf
    ELSE titulos[CHOOSE i \in DOMAIN titulos :
                    /\ RefContem(titulos[i], num_nf)
                    /\ \A j \in 1..(i - 1) : ~RefContem(titulos[j], num_nf)]

\* `item`; the status of an invoice not found is written without its tilde
ItemConfronto(nf, titulos) ==
    [nf_numero             |-> nf.numero,
     valor_liquido         |-> nf.valor_liquido,
     status                |-> IF Achou(nf.numero, titulos) THEN "ENCONTRADO" ELSE "NAO ENCONTRADO",
     referencia_financeiro |-> IF Achou(nf.numero, titulos)
                               THEN ReferenciaEncontrada(nf.numero, titulos) ELSE <<>>]

\* soma_col_k + soma_col_l
RECURSIVE SomaKL(_)
SomaKL(linhas) ==
    IF linhas = <<>> THEN 0
    ELSE Head(linhas).k + Head(linhas).l + SomaKL(Tail(linhas))

confrontar_titulos(nao_matcheadas, linhas) ==
    LET titulos == TitulosDe(linhas)
        itens   == [i \in DOMAIN nao_matcheadas |-> ItemConfronto(nao_matcheadas[i], titulos)]
    IN  [feito                |-> TRUE,
         saldo_financeiro     |-> SomaKL(linhas),
         qtd_titulos          |-> Len(titulos),
         encontrados          |-> SelectSeq(itens, LAMBDA it : it.status = "ENCONTRADO"),
         nao_encontrados      |-> SelectSeq(itens, LAMBDA it : it.status # "ENCONTRADO"),
         total_nao_matcheadas |-> Len(nao_matcheadas)]

MaxLinhasConf == 3
MaxTitulos    == 1

R_2903    == <<"0","0","0","0","0","2","9","0","3">>
R_X29045  == <<"X","0","0","0","0","0","2","9","0","4","5">>
R_NF2904  == <<"N","F"," ","2","9","0","4","/","0","1">>
R_ABC     == <<"A","B","C">>
R_BRANCO  == <<" ">>

\* an invoice with its receipt, an invoice without, an invoice whose number
\* is all zeros, a late line
RazaoCatalogConf ==
    { [data |-> <<5>>,  lote |-> LOTE_NF,  historico |-> H_NF2903,  debito |-> 1000000, credito |-> 0],
      [data |-> <<6>>,  lote |-> LOTE_REC, historico |-> H_REC2900, debito |-> 0,       credito |-> 1000000],
      [data |-> <<7>>,  lote |-> LOTE_NF,  historico |-> H_NF2904,  debito |-> 980000,  credito |-> 0],
      [data |-> <<8>>,  lote |-> LOTE_NF,  historico |-> H_NF000,   debito |-> 10000,   credito |-> 0],
      [data |-> <<40>>, lote |-> LOTE_NF,  historico |-> H_NFS2902, debito |-> 100000,  credito |-> 0] }

\* rows of the receivables sheet: columns B, K and L
TitulosCatalog ==
    { [b |-> R_2903,   k |-> 1000000, l |-> 0],
      [b |-> R_X29045, k |-> 980000,  l |-> 5000],
      [b |-> R_NF2904, k |-> 980000,  l |-> 0],
      [b |-> R_ABC,    k |-> 0,       l |-> 70000],
      [b |-> R_BRANCO, k |-> 0,       l |-> 0] }

InitConfronto ==
    /\ razao \in SeqsUpTo(RazaoCatalogConf, MaxLinhasConf)
    /\ saldo_inicial = 0
    /\ data_inicio = JanelaInicio /\ data_fim = JanelaFim
    /\ row_num = 1 /\ lancamentos = <<>>
    /\ nfs = <<>> /\ recebimentos = <<>> /\ matches = <<>>
    /\ nao_encontrados_nf = <<>> /\ nao_encontrados_rec = <<>>
    /\ saldo_final = 0 /\ pc_cli = "processar_lancamentos"
    /\ BankIdle /\ NormIdle /\ PipeIdle /\ ParseIdle /\ HostIdle
    /\ \/ planilha_fin = [existe |-> FALSE, linhas |-> <<>>]
       \/ \E ls \in SeqsUpTo(TitulosCatalog, MaxTitulos) :
             planilha_fin = [existe |-> TRUE, linhas |-> ls]
    /\ confronto = SemConfronto

\* `if arquivo_financeiro_path and os.path.exists(arquivo_financeiro_path)`
ConfrontarTitulos ==
    /\ pc_cli = "fim" /\ planilha_fin.existe
    /\ confronto' = confrontar_titulos(nao_encontrados_nf, planilha_fin.linhas)
    /\ pc_cli' = "salvar"
    /\ UNCHANGED <<razao, data_inicio, data_fim, row_num, lancamentos, saldo_inicial,
                   nfs, recebimentos, matches, nao_encontrados_nf, nao_encontrados_rec,
                   saldo_final, planilha_fin>>
    /\ UNCHANGED <<bankVars, normVars, pipeVars, parseVars, hostVars>>

\* no receivables workbook: confronto_data stays None
PularConfronto ==
    /\ pc_cli = "fim" /\ ~planilha_fin.existe
    /\ pc_cli' = "salvar"
    /\ UNCHANGED <<razao, data_inicio, data_fim, row_num, lancamentos, saldo_inicial,
                   nfs, recebimentos, matches, nao_encontrados_nf, nao_encontrados_rec,
                   saldo_final, planilha_fin, confronto>>
    /\ UNCHANGED <<bankVars, normVars, pipeVars, parseVars, hostVars>>

NextConfronto ==
    \/ PularForaIntervalo
    \/ ProcessarLinha
    \/ RealizarMatching
    \/ CriarAbaResumo
    \/ ConfrontarTitulos
    \/ PularConfronto

SpecConfronto == InitConfronto /\ [][NextConfronto]_vars

-----------------------------------------------------------------------------
(* processar_conciliacao_cliente on a ledger that exercises the routing    *)

MaxLinhasRota == 3

\* an invoice of 1000.00 and receipts 0.01, 0.02 and 0.005 away from it; a
\* line of the invoice lot that speaks of a receipt; a line without a
\* number; a line of neither lot; a line without description; a late line
RazaoCatalogRota ==
    { [data |-> <<5>>,  lote |-> LOTE_NF,    historico |-> H_NF2903,    debito |-> 1000000, credito |-> 0],
      [data |-> <<6>>,  lote |-> LOTE_REC,   historico |-> H_REC2900,   debito |-> 0,       credito |-> 999990],
      [data |-> <<7>>,  lote |-> LOTE_REC,   historico |-> H_REC2900,   debito |-> 10,      credito |-> 0],
      [data |-> <<8>>,  lote |-> <<>>,       historico |-> H_RECND671,  debito |-> 0,       credito |-> 1000005],
      [data |-> <<9>>,  lote |-> LOTE_NF,    historico |-> H_RECNF2905, debito |-> 500000,  credito |-> 0],
      [data |-> <<10>>, lote |-> LOTE_NF,    historico |-> H_AJUSTE,    debito |-> 70000,   credito |-> 0],
      [data |-> <<11>>, lote |-> LOTE_OUTRO, historico |-> H_NF2904,    debito |-> 980000,  credito |-> 0],
      [data |-> <<12>>, lote |-> LOTE_NF,    historico |-> <<>>,        debito |-> 30000,   credito |-> 0],
      [data |-> <<40>>, lote |-> LOTE_NF,    historico |-> H_NF2903,    debito |-> 100000,  credito |-> 0] }

InitRota ==
    /\ razao \in SeqsUpTo(RazaoCatalogRota, MaxLinhasRota)
    /\ saldo_inicial = 0
    /\ data_inicio = JanelaInicio /\ data_fim = JanelaFim
    /\ row_num = 1 /\ lancamentos = <<>>
    /\ nfs = <<>> /\ recebimentos = <<>> /\ matches = <<>>
    /\ nao_encontrados_nf = <<>> /\ nao_encontrados_rec = <<>>
    /\ saldo_final = 0 /\ pc_cli = "processar_lancamentos"
    /\ BankIdle /\ NormIdle /\ OutrasIdle

SpecRota == InitRota /\ [][NextCli]_vars

-----------------------------------------------------------------------------
(* normalizar_texto applied to its own result                              *)

MaxTexto == 3
NormAlphabet == {"F", "T", "-", "1", "a", " "}

InitNorm ==
    /\ txt_in \in SeqsUpTo(NormAlphabet, MaxTexto)
    /\ txt_n1 = <<>> /\ txt_n2 = <<>> /\ pc_norm = "entrada"
    /\ BankIdle /\ CliIdle /\ OutrasIdle

NormalizarUma ==
    /\ pc_norm = "entrada"
    /\ txt_n1' = normalizar_texto(txt_in)
    /\ pc_norm' = "uma"
    /\ UNCHANGED <<txt_in, txt_n2>>
    /\ UNCHANGED <<bankVars, cliVars, outrasVars>>

NormalizarDeNovo ==
    /\ pc_norm = "uma"
    /\ txt_n2' = normalizar_texto(txt_n1)
    /\ pc_norm' = "duas"
    /\ UNCHANGED <<txt_in, txt_n1>>
    /\ UNCHANGED <<bankVars, cliVars, outrasVars>>

NextNorm ==
    \/ NormalizarUma
    \/ NormalizarDeNovo

SpecNorm == InitNorm /\ [][NextNorm]_vars

-----------------------------------------------------------------------------
(* processar_conciliacao as a whole: schema checks, conciliar, the review  *)
(* pass and the output workbook; then a second run on the same frames      *)

\* one REVISAR row of encontrar_possiveis_matches_data_valor
LinhaRevisar(row, data_fin, r) ==
    [ STATUS |-> "REVISAR",
      DATA_RELATORIO_FINANCEIRO |-> data_fin,
      TIPO_RELATORIO_FINANCEIRO |-> row.TIPO_RELATORIO_FINANCEIRO,
      TEXTO_RELATORIO_FINANCEIRO |-> row.TEXTO_RELATORIO_FINANCEIRO,
      VALOR_RELATORIO_FINANCEIRO |-> row.VALOR_RELATORIO_FINANCEIRO,
      DATA_RELATORIO_CONTABIL |-> r.DATA_CONTABIL,
      TIPO_RELATORIO_CONTABIL |-> r.TIPO_CONTABIL,
      HISTORICO_RELATORIO_CONTABIL |-> r.HIST_TXT,
      VALOR_RELATORIO_CONTABIL |-> r.VALOR_CONTABIL,
      DIF |-> Abs(row.VALOR_RELATORIO_FINANCEIRO - r.VALOR_CONTABIL),
      OBS |-> "Data e valor proximos",
      fin_ref |-> row.fin_ref, cont_ref |-> <<r.idx>> ]

\* the inner loop over cont_df for one divergent financial row
PossiveisDaLinha(row, tol) ==
    LET fin_match == SelectSeq(fin_df, LAMBDA f : f.TEXTO_FIN = row.TEXTO_RELATORIO_FINANCEIRO)
    IN  IF fin_match = <<>> THEN <<>>
        ELSE IF fin_match[1].DATA_FIN = NaT THEN <<>>
        ELSE LET data_fin == fin_match[1].DATA_FIN
                 cs == SelectSeq(cont_df, LAMBDA r :
                          /\ r.TIPO_CONTABIL = TipoContEsperado(row.TIPO_RELATORIO_FINANCEIRO)
                          /\ r.DATA_CONTABIL # NaT
                          /\ ~(Abs(row.VALOR_RELATORIO_FINANCEIRO - r.VALOR_CONTABIL) > tol)
                          /\ ~(Abs(Dia(data_fin) - Dia(r.DATA_CONTABIL)) > 1))
             IN  [i \in DOMAIN cs |-> LinhaRevisar(row, data_fin, cs[i])]

RECURSIVE PossiveisDe(_, _, _)
PossiveisDe(diverg_fin, tol, n) ==
    IF n = 0 THEN <<>>
    ELSE PossiveisDe(diverg_fin, tol, n - 1) \o PossiveisDaLinha(diverg_fin[n], tol)

\* encontrar_possiveis_matches_data_valor(fin_df, cont_df, conc_df, tolerancia)
encontrar_possiveis_matches_data_valor(conc_df, tol) ==
    IF ~col_data.fin \/ ~col_data.cont THEN <<>>
    ELSE LET diverg_fin == SelectSeq(conc_df, LAMBDA row :
                              row.STATUS # "OK" /\ row.TEXTO_RELATORIO_FINANCEIRO # <<>>)
         IN  PossiveisDe(diverg_fin, tol, Len(diverg_fin))

\* divergentes = conc_df[conc_df["STATUS"] != "OK"]
Divergentes(conc_df) == SelectSeq(conc_df, LAMBDA row : row.STATUS # "OK")

\* mutant: the possible matches written with the matcher's rows
FolhaConciliacaoComPossiveis(conc_df, poss) == conc_df \o poss

\* conc_df.to_excel(writer, sheet_name="CONCILIACAO")
FolhaConciliacao(conc_df, poss) == conc_df

\* revisao_df: the divergent rows, then the possible matches
FolhaRevisao(conc_df, poss) == Divergentes(conc_df) \o poss

RECURSIVE SomaCampo(_, _, _)
SomaCampo(df, campo, n) == IF n = 0 THEN 0 ELSE SomaCampo(df, campo, n - 1) + df[n][campo]

\* saldo_final_df: J, K and J - K of both reports, and the difference
FolhaSaldoFinal ==
    LET cJ == SomaCampo(cont_df, "DEBITO_F", Len(cont_df))
        cK == SomaCampo(cont_df, "CREDITO_F", Len(cont_df))
        fJ == SomaCampo(fin_df, "ENTRADAS_F", Len(fin_df))
        fK == SomaCampo(fin_df, "SAIDAS_F", Len(fin_df))
    IN  << [RELATORIO |-> "Relatorio Contabil", J |-> cJ, K |-> cK, J_MENOS_K |-> cJ - cK],
           [RELATORIO |-> "Relatorio Financeiro", J |-> fJ, K |-> fK, J_MENOS_K |-> fJ - fK],
           [RELATORIO |-> "DIFERENCA (Financeiro - Contabil)", J |-> 0, K |-> 0,
            J_MENOS_K |-> (fJ - fK) - (cJ - cK)] >>

\* the candidates that can win the candidate loop under some visiting order:
\* with `sc > melhor_score` the first visited of the top-scoring ones wins
Melhores(f, usados) ==
    {k \in Elegiveis(f, usados) :
        \A j \in Elegiveis(f, usados) : ~ScoreMaior(f, cont_df[j], cont_df[k])}

InitPipeline ==
    /\ esquema \in EsquemaOpcoes
    /\ IF esquema = EsquemaEsperado
       THEN /\ fin_rows \in SeqsUpTo(FinCatalogP, MaxFin)
            /\ cont_rows \in {Brancas(n) \o c : n \in LinhasEmBranco,
                                                c \in SeqsUpTo(ContCatalogP, MaxCont)}
       ELSE fin_rows = <<>> /\ cont_rows = <<>>
    /\ col_data \in ColDataOpcoes
    /\ tolerancia \in ToleranciasPipeline
    /\ min_len \in MinLens
    /\ fin_df = <<>> /\ cont_df = <<>> /\ usados_cont = {} /\ out = <<>>
    /\ pos = 0 /\ pc = "ler_financeiro"
    /\ erro = ""
    /\ possiveis = <<>> /\ arquivo = Vazio
    /\ usados2 = {} /\ out2 = <<>> /\ pos2 = 1 /\ possiveis2 = <<>> /\ pc2 = "conciliar"
    /\ abas_cli = <<ABA_LANCAMENTOS>> /\ erro_cli = "" /\ arquivo_cli = Vazio
    /\ CliIdle /\ NormIdle /\ ParseIdle /\ HostIdle /\ ConfIdle

\* ler_financeiro raises: the sheet "2-Totais" or a required column is missing
FalharFinanceiro ==
    /\ pc = "ler_financeiro"
    /\ ~EsquemaFinOK(esquema)
    /\ erro' = "ValueError"
    /\ pc' = "erro"
    /\ UNCHANGED <<fin_rows, cont_rows, col_data, tolerancia, min_len, fin_df, cont_df,
                   usados_cont, out, pos>>
    /\ UNCHANGED <<esquema, possiveis, arquivo, usados2, out2, pos2, possiveis2, pc2,
                   abas_cli, erro_cli, arquivo_cli>>
    /\ UNCHANGED <<cliVars, normVars, parseVars, hostVars, confVars>>

\* ler_contabil raises: no compatible sheet, or a required column is missing
FalharContabil ==
    /\ pc = "ler_contabil"
    /\ ~EsquemaContOK(esquema)
    /\ erro' = "ValueError"
    /\ pc' = "erro"
    /\ UNCHANGED <<fin_rows, cont_rows, col_data, tolerancia, min_len, fin_df, cont_df,
                   usados_cont, out, pos>>
    /\ UNCHANGED <<esquema, possiveis, arquivo, usados2, out2, pos2, possiveis2, pc2,
                   abas_cli, erro_cli, arquivo_cli>>
    /\ UNCHANGED <<cliVars, normVars, parseVars, hostVars, confVars>>

\* possiveis = encontrar_possiveis_matches_data_valor(..., tolerancia=max(tolerancia, 0.02))
RevisarPossiveis ==
    /\ pc = "conciliado"
    /\ possiveis' = encontrar_possiveis_matches_data_valor(out, Max(tolerancia, 20))
    /\ pc' = "revisado"
    /\ UNCHANGED <<fin_rows, cont_rows, col_data, tolerancia, min_len, fin_df, cont_df,
                   usados_cont, out, pos>>
    /\ UNCHANGED <<esquema, erro, arquivo, usados2, out2, pos2, possiveis2, pc2,
                   abas_cli, erro_cli, arquivo_cli>>
    /\ UNCHANGED <<cliVars, normVars, parseVars, hostVars, confVars>>

\* `with pd.ExcelWriter(output_xlsx) as writer`: the three sheets
SalvarExcel ==
    /\ pc = "revisado"
    /\ arquivo' = << [ CONCILIACAO |-> FolhaConciliacao(out, possiveis),
                       REVISAO     |-> FolhaRevisao(out, possiveis),
                       SALDO_FINAL |-> FolhaSaldoFinal ] >>
    /\ pc' = "salvo"
    /\ UNCHANGED <<fin_rows, cont_rows, col_data, tolerancia, min_len, fin_df, cont_df,
                   usados_cont, out, pos>>
    /\ UNCHANGED <<esquema, erro, possiveis, usados2, out2, pos2, possiveis2, pc2,
                   abas_cli, erro_cli, arquivo_cli>>
    /\ UNCHANGED <<cliVars, normVars, parseVars, hostVars, confVars>>

\* the second run, record by record; its candidate loop may visit the
\* candidates in any order
ReexecutarRuido ==
    /\ pc = "salvo" /\ pc2 = "conciliar" /\ pos2 <= Len(fin_df)
    /\ Ruido(fin_df[pos2])
    /\ pos2' = pos2 + 1
    /\ UNCHANGED <<esquema, erro, possiveis, arquivo, usados2, out2, possiveis2, pc2,
                   abas_cli, erro_cli, arquivo_cli>>
    /\ UNCHANGED <<bankVars, cliVars, normVars, parseVars, hostVars, confVars>>

ReexecutarOK ==
    /\ pc = "salvo" /\ pc2 = "conciliar" /\ pos2 <= Len(fin_df)
    /\ ~Ruido(fin_df[pos2])
    /\ \E k \in Melhores(fin_df[pos2], usados2) :
          /\ usados2' = usados2 \cup {cont_df[k].idx}
          /\ out2' = Append(out2, LinhaOK(fin_df[pos2], cont_df[k]))
    /\ pos2' = pos2 + 1
    /\ UNCHANGED <<esquema, erro, possiveis, arquivo, possiveis2, pc2,
                   abas_cli, erro_cli, arquivo_cli>>
    /\ UNCHANGED <<bankVars, cliVars, normVars, parseVars, hostVars, confVars>>

ReexecutarDivergente ==
    /\ pc = "salvo" /\ pc2 = "conciliar" /\ pos2 <= Len(fin_df)
    /\ ~Ruido(fin_df[pos2])
    /\ Elegiveis(fin_df[pos2], usados2) = {}
    /\ out2' = Append(out2, LinhaDivergenteFin(fin_df[pos2]))
    /\ pos2' = pos2 + 1
    /\ UNCHANGED <<esquema, erro, possiveis, arquivo, usados2, possiveis2, pc2,
                   abas_cli, erro_cli, arquivo_cli>>
    /\ UNCHANGED <<bankVars, cliVars, normVars, parseVars, hostVars, confVars>>

\* the leftovers and the review pass of the second run
ReexecutarSobras ==
    /\ pc = "salvo" /\ pc2 = "conciliar" /\ pos2 > Len(fin_df)
    /\ out2' = out2 \o SobrasCont(usados2)
    /\ possiveis2' = encontrar_possiveis_matches_data_valor(out2 \o SobrasCont(usados2),
                                                            Max(tolerancia, 20))
    /\ pc2' = "fim"
    /\ UNCHANGED <<esquema, erro, possiveis, arquivo, usados2, pos2,
                   abas_cli, erro_cli, arquivo_cli>>
    /\ UNCHANGED <<bankVars, cliVars, normVars, parseVars, hostVars, confVars>>

NextPipeline ==
    \/ LerFinanceiro
    \/ FalharFinanceiro
    \/ LerContabil
    \/ FalharContabil
    \/ PularRuido
    \/ EmitirOK
    \/ EmitirDivergente
    \/ EmitirSobras
    \/ RevisarPossiveis
    \/ SalvarExcel
    \/ ReexecutarRuido
    \/ ReexecutarOK
    \/ ReexecutarDivergente
    \/ ReexecutarSobras

SpecPipeline == InitPipeline /\ [][NextPipeline]_vars

-----------------------------------------------------------------------------
(* ler_financeiro and ler_contabil on ledgers with signed amount cells     *)

InitLeitura ==
    /\ fin_rows \in SeqsUpTo(FinCatalogL, MaxFin)
    /\ cont_rows \in SeqsUpTo(ContCatalogL, MaxCont)
    /\ col_data = [fin |-> FALSE, cont |-> FALSE]
    /\ tolerancia \in ToleranciasPipeline
    /\ min_len \in MinLens
    /\ fin_df = <<>> /\ cont_df = <<>> /\ usados_cont = {} /\ out = <<>>
    /\ pos = 0 /\ pc = "ler_financeiro"
    /\ CliIdle /\ NormIdle /\ OutrasIdle

NextLeitura ==
    \/ LerFinanceiro
    \/ LerContabil

SpecLeitura == InitLeitura /\ [][NextLeitura]_vars

-----------------------------------------------------------------------------
(* conciliar followed by the review pass, on ledgers with repeated texts   *)

InitRevisao ==
    /\ fin_rows \in SeqsUpTo(FinCatalogR, MaxFin)
    /\ cont_rows \in SeqsUpTo(ContCatalogR, MaxCont)
    /\ col_data \in ColDataOpcoes
    /\ tolerancia \in ToleranciasPipeline
    /\ min_len \in MinLens
    /\ fin_df = <<>> /\ cont_df = <<>> /\ usados_cont = {} /\ out = <<>>
    /\ pos = 0 /\ pc = "ler_financeiro"
    /\ CliIdle /\ NormIdle /\ OutrasIdle

NextRevisao ==
    \/ LerFinanceiro
    \/ LerContabil
    \/ PularRuido
    \/ EmitirOK
    \/ EmitirDivergente
    \/ EmitirSobras
    \/ RevisarPossiveis

SpecRevisao == InitRevisao /\ [][NextRevisao]_vars

-----------------------------------------------------------------------------
(* Both engines from the uploaded workbook to the saved report             *)

MaxEsquemaLinhas == 1

\* workbooks handed to the invoice x receipt engine (sheet names in ASCII)
AbasCliOpcoes == { <<ABA_LANCAMENTOS>>, <<ABA_PLAN1, ABA_3LANC>>, <<ABA_PLAN1>>, <<ABA_2TOTAIS, ABA_3RESUMO>> }

\* `'Lancamentos Contabeis' in sheet_name` for some sheet of the workbook
TemAbaLancamentos(abas) == \E i \in DOMAIN abas : Contains(abas[i], ABA_LANCAMENTOS)

InitEsquemaBanco ==
    /\ fin_rows \in SeqsUpTo(FinCatalogP, MaxEsquemaLinhas)
    /\ cont_rows \in SeqsUpTo(ContCatalogP, MaxEsquemaLinhas)
    /\ col_data \in ColDataOpcoes
    /\ tolerancia \in ToleranciasPipeline
    /\ min_len \in MinLens
    /\ fin_df = <<>> /\ cont_df = <<>> /\ usados_cont = {} /\ out = <<>>
    /\ pos = 0 /\ pc = "ler_financeiro"
    /\ esquema \in EsquemaOpcoes /\ erro = ""
    /\ possiveis = <<>> /\ arquivo = Vazio
    /\ Run2Idle
    /\ abas_cli = <<ABA_LANCAMENTOS>> /\ erro_cli = "" /\ arquivo_cli = Vazio
    /\ CliIdle /\ NormIdle /\ ParseIdle /\ HostIdle /\ ConfIdle

InitEsquemaCli ==
    /\ razao \in SeqsUpTo(RazaoCatalog, MaxEsquemaLinhas)
    /\ saldo_inicial \in SaldosIniciais
    /\ data_inicio = JanelaInicio /\ data_fim = JanelaFim
    /\ row_num = 1 /\ lancamentos = <<>>
    /\ nfs = <<>> /\ recebimentos = <<>> /\ matches = <<>>
    /\ nao_encontrados_nf = <<>> /\ nao_encontrados_rec = <<>>
    /\ saldo_final = 0 /\ pc_cli = "carregar_planilha"
    /\ esquema = EsquemaEsperado /\ erro = ""
    /\ possiveis = <<>> /\ arquivo = Vazio
    /\ Run2Idle
    /\ abas_cli \in AbasCliOpcoes /\ erro_cli = "" /\ arquivo_cli = Vazio
    /\ BankIdle /\ NormIdle /\ ParseIdle /\ HostIdle /\ ConfIdle

InitEsquema == InitEsquemaBanco \/ InitEsquemaCli

\* processar_lancamentos finds the ledger sheet
BuscarAba ==
    /\ pc_cli = "carregar_planilha"
    /\ TemAbaLancamentos(abas_cli)
    /\ pc_cli' = "processar_lancamentos"
    /\ UNCHANGED <<razao, data_inicio, data_fim, row_num, lancamentos, saldo_inicial, nfs,
                   recebimentos, matches, nao_encontrados_nf, nao_encontrados_rec, saldo_final>>
    /\ UNCHANGED <<bankVars, normVars, outrasVars>>

\* processar_lancamentos: `if ws is None: raise Exception(...)`
FalharAba ==
    /\ pc_cli = "carregar_planilha"
    /\ ~TemAbaLancamentos(abas_cli)
    /\ erro_cli' = "Exception"
    /\ pc_cli' = "erro"
    /\ UNCHANGED <<razao, data_inicio, data_fim, row_num, lancamentos, saldo_inicial, nfs,
                   recebimentos, matches, nao_encontrados_nf, nao_encontrados_rec, saldo_final>>
    /\ UNCHANGED <<esquema, erro, possiveis, arquivo, usados2, out2, pos2, possiveis2, pc2,
                   abas_cli, arquivo_cli>>
    /\ UNCHANGED <<bankVars, normVars, parseVars, hostVars, confVars>>

\* sistema.workbook_output.save(output_path)
SalvarRelatorio ==
    /\ pc_cli = "fim"
    /\ arquivo_cli' = << [ saldo_final |-> saldo_final, nfs |-> nfs,
                           recebimentos |-> recebimentos ] >>
    /\ pc_cli' = "salvo"
    /\ UNCHANGED <<razao, data_inicio, data_fim, row_num, lancamentos, saldo_inicial, nfs,
                   recebimentos, matches, nao_encontrados_nf, nao_encontrados_rec, saldo_final>>
    /\ UNCHANGED <<esquema, erro, possiveis, arquivo, usados2, out2, pos2, possiveis2, pc2,
                   abas_cli, erro_cli>>
    /\ UNCHANGED <<bankVars, normVars, parseVars, hostVars, confVars>>

NextEsquema ==
    \/ LerFinanceiro
    \/ FalharFinanceiro
    \/ LerContabil
    \/ FalharContabil
    \/ PularRuido
    \/ EmitirOK
    \/ EmitirDivergente
    \/ EmitirSobras
    \/ RevisarPossiveis
    \/ SalvarExcel
    \/ BuscarAba
    \/ FalharAba
    \/ PularForaIntervalo
    \/ ProcessarLinha
    \/ RealizarMatching
    \/ CriarAbaResumo
    \/ SalvarRelatorio

SpecEsquema == InitEsquema /\ [][NextEsquema]_vars

-----------------------------------------------------------------------------
(* The amount parsers: to_float_br and ConciliacaoCliente.parse_valor      *)
(*                                                                         *)
(* A cell is None, a bool, an int, a finite float (in thousandths), the    *)
(* float NaN, a datetime or a text.  A result is a number m / 10^e, the    *)
(* not-a-number value, or a raised exception.                              *)

Num(m, e)   == [tag |-> "num", m |-> m, e |-> e]
NaoNumero   == [tag |-> "nan"]
Infinito    == [tag |-> "inf"]
Levanta(ex) == [tag |-> "raise", exc |-> ex]

DigitosSeq == <<"0","1","2","3","4","5","6","7","8","9">>
ValorDigito(c) == (CHOOSE d \in 1..10 : DigitosSeq[d] = c) - 1

\* s.replace(c, "")
Remover(s, c) == SelectSeq(s, LAMBDA x : x # c)
\* s.replace(a, b) for single characters
Trocar(s, a, b) == [i \in DOMAIN s |-> IF s[i] = a THEN b ELSE s[i]]
\* s.replace("R$", "")
RECURSIVE RemoverCifrao(_)
RemoverCifrao(s) ==
    IF Len(s) < 2 THEN s
    ELSE IF s[1] = "R" /\ s[2] = "$" THEN RemoverCifrao(SubSeq(s, 3, Len(s)))
    ELSE <<s[1]>> \o RemoverCifrao(Tail(s))

\* the decimal literals float() and Decimal() both accept among the texts
\* explored: an optional sign, digits with at most one point, one digit at least
SemSinal(s) == IF s # <<>> /\ s[1] \in {"-", "+"} THEN Tail(s) ELSE s
LiteralDecimal(s) ==
    LET t == SemSinal(s)
    IN  /\ t # <<>>
        /\ \A i \in DOMAIN t : t[i] \in Digits \cup {"."}
        /\ Cardinality({i \in DOMAIN t : t[i] = "."}) <= 1
        /\ \E i \in DOMAIN t : t[i] \in Digits

RECURSIVE ValorDigitos(_)
ValorDigitos(ds) ==
    IF ds = <<>> THEN 0
    ELSE 10 * ValorDigitos(SubSeq(ds, 1, Len(ds) - 1)) + ValorDigito(ds[Len(ds)])

\* the number a literal denotes
NumeroDe(s) ==
    LET t  == SemSinal(s)
        pt == {i \in DOMAIN t : t[i] = "."}
        e  == IF pt = {} THEN 0 ELSE Len(t) - (CHOOSE i \in pt : TRUE)
        m  == ValorDigitos(Remover(t, "."))
    IN  Num(IF s[1] = "-" THEN -m ELSE m, e)

\* the special literals float() and Decimal() accept in any letter case
T_INF == <<"I","N","F">>
LiteralEspecial(s) == ToUpper(SemSinal(s)) \in {T_NAN, T_INF}
EspecialDe(s) == IF ToUpper(SemSinal(s)) = T_NAN THEN NaoNumero ELSE Infinito

\* float(s) / Decimal(s) inside the try block: the value, or the except
\* branch's zero
ConverterOuZero(s) ==
    IF LiteralDecimal(s) THEN NumeroDe(s)
    ELSE IF LiteralEspecial(s) THEN EspecialDe(s)
    ELSE Num(0, 0)

T_DATETIME == <<"2","0","2","4","-","0","1","-","0","5"," ","0","0",":","0","0",":","0","0">>

\* to_float_br(x)
to_float_br(x) ==
    IF x.tipo = "bool" THEN Num(IF x.b THEN 1 ELSE 0, 0)
    ELSE IF x.tipo = "int" THEN Num(x.n, 0)
    ELSE IF x.tipo = "float" THEN Num(x.mills, 3)
    ELSE IF x.tipo \in {"None", "nan"} THEN Num(0, 0)
    ELSE LET s0 == Strip(IF x.tipo = "datetime" THEN T_DATETIME ELSE x.s)
         IN  IF s0 = <<>> \/ ToUpper(s0) = T_NAN THEN Num(0, 0)
             ELSE LET s1 == Remover(s0, " ")
                      s2 == IF \E i \in DOMAIN s1 : s1[i] = ","
                            THEN Trocar(Remover(s1, "."), ",", ".") ELSE s1
                  IN  ConverterOuZero(s2)

\* the multiplication by the D / C multiplier
Vezes(r, mult) == IF r.tag = "num" THEN Num(r.m * mult, r.e) ELSE r

\* ConciliacaoCliente.parse_valor(valor)
parse_valor(valor) ==
    IF valor.tipo = "None" THEN Num(0, 0)
    ELSE IF valor.tipo = "str" /\ valor.s = <<>> THEN Num(0, 0)
    ELSE IF valor.tipo = "bool" THEN Levanta("InvalidOperation")
    ELSE IF valor.tipo = "int" THEN Num(valor.n, 0)
    ELSE IF valor.tipo = "float" THEN Num(valor.mills, 3)
    ELSE IF valor.tipo = "nan" THEN NaoNumero
    ELSE LET s0 == Strip(IF valor.tipo = "datetime" THEN T_DATETIME ELSE valor.s)
             s1 == Remover(RemoverCifrao(s0), " ")
             fD == s1 # <<>> /\ s1[Len(s1)] = "D"
             fC == s1 # <<>> /\ s1[Len(s1)] = "C"
             s2 == IF fD \/ fC THEN Strip(SubSeq(s1, 1, Len(s1) - 1)) ELSE s1
             multiplicador == IF fC /\ ~fD THEN -1 ELSE 1
             temV == \E i \in DOMAIN s2 : s2[i] = ","
             temP == \E i \in DOMAIN s2 : s2[i] = "."
             s3 == IF temV /\ temP THEN Trocar(Remover(s2, "."), ",", ".")
                   ELSE IF temV THEN Trocar(s2, ",", ".")
                   ELSE s2
         IN  Vezes(ConverterOuZero(s3), multiplicador)

MaxCelula == 3
CelulaAlphabet == {"1", "5", "0", ",", ".", "-", "C", "x", " "}
T_RS1500 == <<"R","$"," ","1",".","5","0","0",",","5","0">>
T_1500D  == <<"1","5","0","0",",","5","D">>
Celulas ==
    { [tipo |-> "None"], [tipo |-> "nan"], [tipo |-> "datetime"],
      [tipo |-> "bool", b |-> TRUE], [tipo |-> "bool", b |-> FALSE],
      [tipo |-> "int", n |-> 0], [tipo |-> "int", n |-> 1500],
      [tipo |-> "float", mills |-> 1500500],
      [tipo |-> "str", s |-> T_RS1500], [tipo |-> "str", s |-> T_1500D],
      [tipo |-> "str", s |-> T_NAN], [tipo |-> "str", s |-> T_INF] }
    \cup { [tipo |-> "str", s |-> t] : t \in SeqsUpTo(CelulaAlphabet, MaxCelula) }

InitParse ==
    /\ celula \in Celulas
    /\ res_to_float_br = Vazio /\ res_parse_valor = Vazio
    /\ pc_parse = "celula"
    /\ BankIdle /\ CliIdle /\ NormIdle /\ PipeIdle /\ HostIdle /\ ConfIdle

AplicarToFloatBr ==
    /\ pc_parse = "celula"
    /\ res_to_float_br' = <<to_float_br(celula)>>
    /\ pc_parse' = "to_float_br"
    /\ UNCHANGED <<celula, res_parse_valor>>
    /\ UNCHANGED <<bankVars, cliVars, normVars, pipeVars, hostVars, confVars>>

AplicarParseValor ==
    /\ pc_parse = "to_float_br"
    /\ res_parse_valor' = <<parse_valor(celula)>>
    /\ pc_parse' = "parse_valor"
    /\ UNCHANGED <<celula, res_to_float_br>>
    /\ UNCHANGED <<bankVars, cliVars, normVars, pipeVars, hostVars, confVars>>

NextParse ==
    \/ AplicarToFloatBr
    \/ AplicarParseValor

SpecParse == InitParse /\ [][NextParse]_vars

-----------------------------------------------------------------------------
(* The host: two requests to /api/conciliacao/processar served in parallel *)
(*                                                                         *)
(* uploads maps each path of the upload folder to the request whose file   *)
(* it holds (0: no file); saidas maps each second of the clock to the      *)
(* workbook written under that timestamp.  A workbook is named by the      *)
(* requests whose uploads it was computed from.                            *)

Reqs  == {1, 2}
Nomes == {"financeiro.xlsx", "razao.xlsx"}
Horas == {1, 2}
Caminhos == {"conc_fin_", "conc_cont_"} \X Nomes

\* fin_path and cont_path of a request
fin_path(r)  == <<"conc_fin_",  reqs[r].fin_filename>>
cont_path(r) == <<"conc_cont_", reqs[r].cont_filename>>

InitHost ==
    /\ reqs \in [Reqs -> [pc : {"salvar_fin"}, fin_filename : Nomes, cont_filename : Nomes,
                          data_hora : {0}, lido_fin : {0}, lido_cont : {0}]]
    /\ uploads = [c \in Caminhos |-> 0]
    /\ saidas = [h \in Horas |-> Vazio]
    /\ BankIdle /\ CliIdle /\ NormIdle /\ PipeIdle /\ ParseIdle /\ ConfIdle

HostInalterado == UNCHANGED <<bankVars, cliVars, normVars, pipeVars, parseVars, confVars>>

\* fin_file.save(fin_path)
SalvarFin(r) ==
    /\ reqs[r].pc = "salvar_fin"
    /\ uploads' = [uploads EXCEPT ![fin_path(r)] = r]
    /\ reqs' = [reqs EXCEPT ![r].pc = "salvar_cont"]
    /\ UNCHANGED saidas /\ HostInalterado

\* cont_file.save(cont_path)
SalvarCont(r) ==
    /\ reqs[r].pc = "salvar_cont"
    /\ uploads' = [uploads EXCEPT ![cont_path(r)] = r]
    /\ reqs' = [reqs EXCEPT ![r].pc = "data_hora"]
    /\ UNCHANGED saidas /\ HostInalterado

\* data_hora = datetime.now().strftime("%Y%m%d_%H%M%S")
GerarSaida(r) ==
    /\ reqs[r].pc = "data_hora"
    /\ \E h \in Horas : reqs' = [reqs EXCEPT ![r].pc = "ler_financeiro", ![r].data_hora = h]
    /\ UNCHANGED <<uploads, saidas>> /\ HostInalterado

\* processar_conciliacao: ler_financeiro(financeiro_path)
AbrirFinanceiro(r) ==
    /\ reqs[r].pc = "ler_financeiro"
    /\ uploads[fin_path(r)] # 0
    /\ reqs' = [reqs EXCEPT ![r].pc = "ler_contabil", ![r].lido_fin = uploads[fin_path(r)]]
    /\ UNCHANGED <<uploads, saidas>> /\ HostInalterado

\* processar_conciliacao: ler_contabil(contabil_path)
AbrirContabil(r) ==
    /\ reqs[r].pc = "ler_contabil"
    /\ uploads[cont_path(r)] # 0
    /\ reqs' = [reqs EXCEPT ![r].pc = "gravar", ![r].lido_cont = uploads[cont_path(r)]]
    /\ UNCHANGED <<uploads, saidas>> /\ HostInalterado

\* the file is gone: FileNotFoundError reaches the handler's `except Exception`,
\* which answers 500 and removes nothing
ArquivoAusente(r) ==
    /\ \/ reqs[r].pc = "ler_financeiro" /\ uploads[fin_path(r)] = 0
       \/ reqs[r].pc = "ler_contabil" /\ uploads[cont_path(r)] = 0
    /\ reqs' = [reqs EXCEPT ![r].pc = "erro500"]
    /\ UNCHANGED <<uploads, saidas>> /\ HostInalterado

\* processar_conciliacao: the ExcelWriter block
GravarSaida(r) ==
    /\ reqs[r].pc = "gravar"
    /\ saidas' = [saidas EXCEPT ![reqs[r].data_hora] =
                     <<[fin |-> reqs[r].lido_fin, cont |-> reqs[r].lido_cont]>>]
    /\ reqs' = [reqs EXCEPT ![r].pc = "remover_fin"]
    /\ UNCHANGED uploads /\ HostInalterado

\* try: os.remove(fin_path)
RemoverFin(r) ==
    /\ reqs[r].pc = "remover_fin"
    /\ uploads[fin_path(r)] # 0
    /\ uploads' = [uploads EXCEPT ![fin_path(r)] = 0]
    /\ reqs' = [reqs EXCEPT ![r].pc = "remover_cont"]
    /\ UNCHANGED saidas /\ HostInalterado

\* os.remove(fin_path) raises: `except: pass` skips os.remove(cont_path)
RemoverFinAusente(r) ==
    /\ reqs[r].pc = "remover_fin"
    /\ uploads[fin_path(r)] = 0
    /\ reqs' = [reqs EXCEPT ![r].pc = "ok"]
    /\ UNCHANGED <<uploads, saidas>> /\ HostInalterado

\* os.remove(cont_path); except: pass
RemoverCont(r) ==
    /\ reqs[r].pc = "remover_cont"
    /\ uploads' = [uploads EXCEPT ![cont_path(r)] = 0]
    /\ reqs' = [reqs EXCEPT ![r].pc = "ok"]
    /\ UNCHANGED saidas /\ HostInalterado

NextHost ==
    \E r \in Reqs :
        \/ SalvarFin(r)
        \/ SalvarCont(r)
        \/ GerarSaida(r)
        \/ AbrirFinanceiro(r)
        \/ AbrirContabil(r)
        \/ ArquivoAusente(r)
        \/ GravarSaida(r)
        \/ RemoverFin(r)
        \/ RemoverFinAusente(r)
        \/ RemoverCont(r)

SpecHost == InitHost /\ [][NextHost]_vars

-----------------------------------------------------------------------------
(* Properties of conciliar                                                 *)

\* the rows of `out` whose financial / accounting side is the record labelled idx
LinhasDoFin(idx)  == {k \in DOMAIN out : out[k].fin_ref = <<idx>>}
LinhasDoCont(idx) == {k \in DOMAIN out : out[k].cont_ref = <<idx>>}
LinhasOK == {k \in DOMAIN out : out[k].STATUS = "OK"}
\* the source records a result row refers to
FinDaLinha(k)  == fin_df[CHOOSE i \in DOMAIN fin_df : <<fin_df[i].idx>> = out[k].fin_ref]
ContDaLinha(k) == cont_df[CHOOSE i \in DOMAIN cont_df : <<cont_df[i].idx>> = out[k].cont_ref]

\* C1 (as claimed): once conciliar has returned, every financial record and
\* every accounting record handed to it is on exactly one result row.
C1_Cobertura ==
    pc = "conciliado" =>
        /\ \A i \in DOMAIN fin_df : Cardinality(LinhasDoFin(fin_df[i].idx)) = 1
        /\ \A i \in DOMAIN cont_df : Cardinality(LinhasDoCont(cont_df[i].idx)) = 1

\* the columns of a result row that reach the workbook
Visivel(rows) ==
    [i \in DOMAIN rows |->
        [c \in {"STATUS", "DATA_RELATORIO_FINANCEIRO", "TIPO_RELATORIO_FINANCEIRO",
                "TEXTO_RELATORIO_FINANCEIRO", "VALOR_RELATORIO_FINANCEIRO",
                "DATA_RELATORIO_CONTABIL", "TIPO_RELATORIO_CONTABIL",
                "HISTORICO_RELATORIO_CONTABIL", "VALOR_RELATORIO_CONTABIL", "DIF", "OBS"}
           |-> rows[i][c]]]

C12_RevisaoNaoAltera ==
    [][ /\ (pc = "conciliado" /\ pc' = "revisado") =>
              /\ out' = out /\ usados_cont' = usados_cont
              /\ \A i \in DOMAIN possiveis' : possiveis'[i].STATUS = "REVISAR"
              /\ \A i \in DOMAIN out' : out'[i].STATUS \in {"OK", "DIVERGENTE"}
        /\ (pc = "revisado" /\ pc' = "salvo") =>
              /\ out' = out /\ usados_cont' = usados_cont
              /\ arquivo'[1].CONCILIACAO = out
              /\ \A i \in DOMAIN arquivo'[1].CONCILIACAO :
                     arquivo'[1].CONCILIACAO[i].STATUS \in {"OK", "DIVERGENTE"}
              /\ \A i \in DOMAIN possiveis :
                     \E j \in DOMAIN arquivo'[1].REVISAO : arquivo'[1].REVISAO[j] = possiveis[i]
      ]_vars

\* C12 witness: a workbook was written after a review pass that found a
\* possible match, next to an OK row of the matcher.
C12_Witness ==
    /\ pc = "salvo"
    /\ possiveis # <<>>
    /\ \E i \in DOMAIN out : out[i].STATUS = "OK"
    /\ \E i \in DOMAIN out : out[i].STATUS = "DIVERGENTE"

\* a raw row the readers must drop: zero amount or empty normalised text
FinDescartavel(row) ==
    \/ (IF row.saidas > 0 THEN row.saidas ELSE row.entradas) = 0
    \/ ColunasFin[row, FALSE].TEXTO_FIN_NORM = <<>>
ContDescartavel(row) ==
    \/ (IF row.debito > 0 THEN row.debito ELSE row.credito) = 0
    \/ ColunasCont[row, FALSE].HIST_NORM = <<>>

\* C13: every record of the frames the readers return has a non-zero amount
\* and a non-empty normalised text; a raw row failing either is in no frame
\* and on no result row.
C13_RegistrosValidos ==
    /\ \A i \in DOMAIN fin_df :
          fin_df[i].VALOR_FIN # 0 /\ Len(fin_df[i].TEXTO_FIN_NORM) > 0
    /\ \A i \in DOMAIN cont_df :
          cont_df[i].VALOR_CONTABIL # 0 /\ Len(cont_df[i].HIST_NORM) > 0
    /\ \A n \in DOMAIN fin_rows :
          FinDescartavel(fin_rows[n]) =>
              /\ \A i \in DOMAIN fin_df : fin_df[i].idx # n - 1
              /\ \A k \in DOMAIN out : out[k].fin_ref # <<n - 1>>
    /\ \A n \in DOMAIN cont_rows :
          ContDescartavel(cont_rows[n]) =>
              /\ \A i \in DOMAIN cont_df : cont_df[i].idx # n - 1
              /\ \A k \in DOMAIN out : out[k].cont_ref # <<n - 1>>

\* C13 witness: both readers dropped rows and the matcher still produced rows.
C13_Witness ==
    /\ pc = "conciliado"
    /\ fin_df # <<>> /\ Len(fin_df) < Len(fin_rows)
    /\ cont_df # <<>> /\ Len(cont_df) < Len(cont_rows)
    /\ out # <<>>

\* C14: when the sheet or a required column is missing in a workbook, the run
\* ends in the raised error with no record matched, nothing reviewed and no
\* workbook written; a reader that raised left no frame and the matcher never
\* ran after an error.
C14_EsquemaAborta ==
    LET finFalta  == \/ \A i \in DOMAIN esquema.abas_fin : esquema.abas_fin[i] # ABA_2TOTAIS
                     \/ \E c \in {"OPERACAO", "PREFIXO/TITULO", "ENTRADAS", "SAIDAS"} :
                            c \notin esquema.colunas_fin
        contFalta == \/ \A i \in DOMAIN esquema.abas_cont : esquema.abas_cont[i][1] # "3"
                     \/ \E c \in {"HISTORICO", "DEBITO", "CREDITO"} :
                            c \notin esquema.colunas_cont
        cliFalta  == \A i \in DOMAIN abas_cli : abas_cli[i] \notin {ABA_LANCAMENTOS, ABA_3LANC}
    IN  /\ finFalta => /\ pc \in {"ler_financeiro", "erro"}
                       /\ fin_df = <<>> /\ cont_df = <<>>
        /\ (finFalta \/ contFalta) =>
              /\ pc \in {"ler_financeiro", "ler_contabil", "erro"}
              /\ cont_df = <<>> /\ out = <<>> /\ usados_cont = {}
              /\ possiveis = <<>> /\ arquivo = Vazio
        /\ erro # "" => pc = "erro" /\ (finFalta \/ contFalta)
        /\ cliFalta => /\ pc_cli \in {"carregar_planilha", "erro"}
                       /\ lancamentos = <<>> /\ nfs = <<>> /\ recebimentos = <<>>
                       /\ matches = <<>> /\ arquivo_cli = Vazio
        /\ erro_cli # "" => pc_cli = "erro" /\ cliFalta

\* C14 witness: ler_contabil raised after ler_financeiro had returned rows.
C14_Witness ==
    /\ pc = "erro" /\ erro = "ValueError"
    /\ fin_df # <<>>
    /\ out = <<>> /\ arquivo = Vazio

\* a cell that holds no amount: not a number, and as a text without any digit
SemAlgarismo(c) ==
    \/ c.tipo \in {"None", "datetime"}
    \/ c.tipo = "str" /\ \A i \in DOMAIN c.s : c.s[i] \notin Digits

EhZero(r) == r.tag = "num" /\ r.m = 0

\* C15: parse_valor and to_float_br never raise, whatever the cell holds, and
\* return zero for a cell that holds no amount.
C15_ParseSuave ==
    pc_parse = "parse_valor" =>
        /\ res_to_float_br[1].tag # "raise"
        /\ res_parse_valor[1].tag # "raise"
        /\ SemAlgarismo(celula) =>
              EhZero(res_to_float_br[1]) /\ EhZero(res_parse_valor[1])

\* both requests answered, and their workbooks written under distinct names
RequisicoesEncerradas == \A r \in Reqs : reqs[r].pc \in {"ok", "erro500"}
SaidasDistintas == reqs[1].data_hora # reqs[2].data_hora

\* C16: when two parallel requests write distinct output paths, each one
\* succeeds and its workbook is the one computed from its own two uploads,
\* under every interleaving.
C16_Independencia ==
    RequisicoesEncerradas /\ SaidasDistintas =>
        \A r \in Reqs :
            /\ reqs[r].pc = "ok"
            /\ saidas[reqs[r].data_hora] = <<[fin |-> r, cont |-> r]>>

\* an unused accounting record that meets every criterion of eligibility for
\* the financial record f: counter-type, amount within the tolerance, dates
\* at most a day apart when both are known, and some evidence
ElegivelPeloCriterio(f, r) ==
    /\ r.idx \notin usados_cont
    /\ r.TIPO_CONTABIL = (IF f.TIPO_FIN = "ENTRADA" THEN "DEBITO" ELSE "CREDITO")
    /\ Abs(f.VALOR_FIN - r.VALOR_CONTABIL) <= tolerancia
    /\ (usar_data /\ f.DATA_FIN # NaT /\ r.DATA_CONTABIL # NaT)
          => Abs(Dia(f.DATA_FIN) - Dia(r.DATA_CONTABIL)) <= 1
    /\ match_texto(f, r) \/ match_num(f, r) \/ match_id(f, r)

\* C17: for every tolerance, a financial record is emitted DIVERGENTE only if
\* no unused accounting record is eligible for it (the row just appended is
\* looked at, so usados_cont is still what the loop saw).
C17_DivergenteSoSemElegivel ==
    (/\ pc = "conciliar" /\ out # <<>>
     /\ out[Len(out)].STATUS = "DIVERGENTE"
     /\ out[Len(out)].fin_ref # Vazio)
    => ~ \E k \in DOMAIN cont_df : ElegivelPeloCriterio(FinDaLinha(Len(out)), cont_df[k])

\* the position in cont_df of the accounting record on result row k
PosContDaLinha(k) == CHOOSE i \in DOMAIN cont_df : <<cont_df[i].idx>> = out[k].cont_ref

\* C18: the accounting record chosen for a financial record has the greatest
\* score among the eligible unused candidates, and among those with that same
\* score it is the first in accounting source order (the row just appended
\* is looked at; the candidates are those of the moment of the choice).
C18_MelhorScorePrimeiroVisto ==
    (pc = "conciliar" /\ out # <<>> /\ out[Len(out)].STATUS = "OK") =>
        LET f == FinDaLinha(Len(out))
            n == PosContDaLinha(Len(out))
            E == Elegiveis(f, usados_cont \ {cont_df[n].idx})
        IN  \A k \in E :
               /\ ~ScoreMaior(f, cont_df[k], cont_df[n])
               /\ ~ScoreMaior(f, cont_df[n], cont_df[k]) => n <= k

\* both dates of a pair are usable: both ledgers have a date column and both
\* records have a date
DatasConhecidas(f, r) == usar_data /\ f.DATA_FIN # NaT /\ r.DATA_CONTABIL # NaT

\* C19: an OK row whose two dates are usable has them at most one day apart;
\* a pair whose dates are not usable is never kept apart by the date test (a
\* record just emitted DIVERGENTE had no unused candidate that met the other
\* criteria with an unusable date) and earns no date bonus (the frames do not
\* change once read: the pairs are looked at when the loop starts).
C19_JanelaDeData ==
    /\ \A k \in LinhasOK :
          DatasConhecidas(FinDaLinha(k), ContDaLinha(k)) =>
              Abs(Dia(FinDaLinha(k).DATA_FIN) - Dia(ContDaLinha(k).DATA_CONTABIL)) <= 1
    /\ (/\ pc = "conciliar" /\ out # <<>>
        /\ out[Len(out)].STATUS = "DIVERGENTE" /\ out[Len(out)].fin_ref # Vazio)
       => LET f == FinDaLinha(Len(out))
          IN  ~ \E k \in candidatos_por_valor_tipo(f.VALOR_FIN, f.TIPO_FIN, tolerancia) :
                   /\ ~DatasConhecidas(f, cont_df[k])
                   /\ cont_df[k].idx \notin usados_cont
                   /\ Abs(f.VALOR_FIN - cont_df[k].VALOR_CONTABIL) <= tolerancia
                   /\ cont_df[k].TIPO_CONTABIL = TipoContEsperado(f.TIPO_FIN)
                   /\ match_texto(f, cont_df[k]) \/ match_num(f, cont_df[k]) \/ match_id(f, cont_df[k])
    /\ (pc = "conciliar" /\ pos = 1) =>
       \A i \in DOMAIN fin_df, k \in DOMAIN cont_df :
          ~DatasConhecidas(fin_df[i], cont_df[k]) =>
              BonusDecimos(fin_df[i], cont_df[k]) =
                    (IF StartsWith(cont_df[k].HIST_NORM, fin_df[i].TEXTO_FIN_NORM) THEN 2 ELSE 0)
                  + (IF match_num(fin_df[i], cont_df[k]) THEN 3 ELSE 0)
                  + (IF match_id(fin_df[i], cont_df[k]) THEN 5 ELSE 0)

\* C19 witness: a finished run with date columns on both sides holding an OK
\* row whose dates are one day apart and an OK row whose accounting date is
\* unknown.
C19_Witness ==
    /\ pc = "conciliado" /\ usar_data
    /\ \E k \in LinhasOK :
          /\ DatasConhecidas(FinDaLinha(k), ContDaLinha(k))
          /\ Abs(Dia(FinDaLinha(k).DATA_FIN) - Dia(ContDaLinha(k).DATA_CONTABIL)) = 1
    /\ \E k \in LinhasOK : ContDaLinha(k).DATA_CONTABIL = NaT

\* the leftover rows: no financial side
LinhasSobra == {k \in DOMAIN out : out[k].fin_ref = Vazio}

\* C20: once conciliar has returned, every accounting record that is not in
\* usados_cont is on exactly one row, a DIVERGENTE row with an empty financial
\* side and the note 'Sem correspondencia no Financeiro'; no record of
\* usados_cont is on a leftover row; every accounting record is on exactly
\* one row.
C20_SobrasContabeis ==
    pc = "conciliado" =>
        \A i \in DOMAIN cont_df :
            LET L == LinhasDoCont(cont_df[i].idx)
            IN  /\ Cardinality(L) = 1
                /\ cont_df[i].idx \in usados_cont => L \cap LinhasSobra = {}
                /\ cont_df[i].idx \notin usados_cont =>
                      \A k \in L :
                          /\ out[k].STATUS = "DIVERGENTE"
                          /\ out[k].fin_ref = Vazio
                          /\ out[k].TEXTO_RELATORIO_FINANCEIRO = <<>>
                          /\ out[k].TIPO_RELATORIO_FINANCEIRO = ""
                          /\ out[k].VALOR_RELATORIO_FINANCEIRO = 0
                          /\ out[k].DATA_RELATORIO_FINANCEIRO = NaT
                          /\ out[k].OBS = "Sem correspondencia no Financeiro"

\* C20 witness: a finished run with one accounting record consumed by an OK
\* row and another left over.
C20_Witness ==
    /\ pc = "conciliado"
    /\ LinhasOK # {}
    /\ \E i \in DOMAIN cont_df :
          /\ cont_df[i].idx \notin usados_cont
          /\ LinhasDoCont(cont_df[i].idx) \cap LinhasSobra # {}

\* the state of an accounting record and of a financial record, read off the
\* consumed set and the rows emitted so far
EstadoCont(idx, usados, rows) ==
    IF idx \in usados THEN "USED"
    ELSE IF \E k \in DOMAIN rows : rows[k].cont_ref = <<idx>> /\ rows[k].fin_ref = Vazio
         THEN "DIVERGENT"
    ELSE "UNPROCESSED"
EstadoFin(idx, rows) ==
    IF \E k \in DOMAIN rows : rows[k].fin_ref = <<idx>> /\ rows[k].STATUS = "OK" THEN "MATCHED"
    ELSE IF \E k \in DOMAIN rows : rows[k].fin_ref = <<idx>> THEN "DIVERGENT"
    ELSE "UNPROCESSED"

PosFinDaLinha(k) == CHOOSE i \in DOMAIN fin_df : <<fin_df[i].idx>> = out[k].fin_ref

\* the rows so far: financial records in frame order, then the accounting
\* leftovers in frame order
OrdemDeEmissao ==
    \A k1, k2 \in DOMAIN out :
        k1 < k2 =>
            /\ out[k1].fin_ref = Vazio => out[k2].fin_ref = Vazio
            /\ (out[k1].fin_ref # Vazio /\ out[k2].fin_ref # Vazio)
                  => PosFinDaLinha(k1) < PosFinDaLinha(k2)
            /\ (out[k1].fin_ref = Vazio /\ out[k2].fin_ref = Vazio)
                  => PosContDaLinha(k1) < PosContDaLinha(k2)

\* C21: in every step of conciliar a record's state stays or leaves
\* UNPROCESSED (accounting: to USED or DIVERGENT; financial: to MATCHED or
\* DIVERGENT), the consumed set only grows, the rows already emitted stay as
\* they are, and rows come out for the financial records in frame order
\* followed by the accounting leftovers in frame order.
C21_MaquinaDeEstados ==
    [][ (pc = "conciliar") =>
          /\ usados_cont \subseteq usados_cont'
          /\ Len(out) <= Len(out') /\ SubSeq(out', 1, Len(out)) = out
          /\ \A i \in DOMAIN cont_df :
                LET a == EstadoCont(cont_df[i].idx, usados_cont, out)
                    b == EstadoCont(cont_df[i].idx, usados_cont', out')
                IN  a = b \/ (a = "UNPROCESSED" /\ b \in {"USED", "DIVERGENT"})
          /\ \A i \in DOMAIN fin_df :
                LET a == EstadoFin(fin_df[i].idx, out)
                    b == EstadoFin(fin_df[i].idx, out')
                IN  a = b \/ (a = "UNPROCESSED" /\ b \in {"MATCHED", "DIVERGENT"})
          /\ OrdemDeEmissao'
      ]_vars

\* C21 witness: a finished run of two financial records, the first matched
\* and the second divergent, with an accounting record used and one left over.
C21_Witness ==
    /\ pc = "conciliado" /\ Len(fin_df) = 2
    /\ EstadoFin(fin_df[1].idx, out) = "MATCHED"
    /\ EstadoFin(fin_df[2].idx, out) = "DIVERGENT"
    /\ \E i, j \in DOMAIN cont_df :
          /\ EstadoCont(cont_df[i].idx, usados_cont, out) = "USED"
          /\ EstadoCont(cont_df[j].idx, usados_cont, out) = "DIVERGENT"

\* the record read from input row i (1-based), <<>> when the row was dropped
LidoFin(i)  == SelectSeq(fin_df, LAMBDA r : r.idx = i - 1)
LidoCont(i) == SelectSeq(cont_df, LAMBDA r : r.idx = i - 1)

\* C27: a row is read into a record unless both of its amount columns are
\* zero; the record's type is the column that is not zero, its amount that
\* column's magnitude, never negative; when both columns are filled SAIDAS
\* wins on the financial side and DEBITO on the accounting side.
C27_ClassificacaoDoLeitor ==
    pc = "conciliar" =>
        /\ \A i \in DOMAIN fin_rows :
              LET row == fin_rows[i]
                  lido == LidoFin(i)
              IN  /\ (lido = <<>>) <=> (row.entradas = 0 /\ row.saidas = 0)
                  /\ lido # <<>> =>
                        /\ lido[1].VALOR_FIN >= 0
                        /\ row.saidas # 0 => /\ lido[1].TIPO_FIN = "SAIDA"
                                              /\ lido[1].VALOR_FIN = Abs(row.saidas)
                        /\ row.saidas = 0 => /\ lido[1].TIPO_FIN = "ENTRADA"
                                              /\ lido[1].VALOR_FIN = Abs(row.entradas)
        /\ \A i \in DOMAIN cont_rows :
              LET row == cont_rows[i]
                  lido == LidoCont(i)
              IN  /\ (lido = <<>>) <=> (row.debito = 0 /\ row.credito = 0)
                  /\ lido # <<>> =>
                        /\ lido[1].VALOR_CONTABIL >= 0
                        /\ row.debito # 0 => /\ lido[1].TIPO_CONTABIL = "DEBITO"
                                              /\ lido[1].VALOR_CONTABIL = Abs(row.debito)
                        /\ row.debito = 0 => /\ lido[1].TIPO_CONTABIL = "CREDITO"
                                              /\ lido[1].VALOR_CONTABIL = Abs(row.credito)

\* the records a REVISAR row was derived from and paired with
FinDaRevisao(i)  == fin_df[CHOOSE n \in DOMAIN fin_df : <<fin_df[n].idx>> = possiveis[i].fin_ref]
ContDaRevisao(i) == cont_df[CHOOSE n \in DOMAIN cont_df : <<cont_df[n].idx>> = possiveis[i].cont_ref]
\* the tolerance processar_conciliacao hands to the review pass
ToleranciaRevisao == IF tolerancia > 20 THEN tolerancia ELSE 20
\* the DIVERGENTE rows with a financial side
LinhasDivergentesFin == {k \in DOMAIN out : out[k].STATUS = "DIVERGENTE" /\ out[k].fin_ref # Vazio}

\* C22: every REVISAR row comes from a DIVERGENTE row with a financial side
\* and pairs that financial record with an accounting record of the matching
\* type, with an amount within the review tolerance and a date at most one
\* day from the financial record's date; without a date column on either
\* side there is no REVISAR row.
C22_RevisaoCorreta ==
    pc = "revisado" =>
        /\ ~usar_data => possiveis = <<>>
        /\ \A i \in DOMAIN possiveis :
              LET f == FinDaRevisao(i)
                  r == ContDaRevisao(i)
              IN  /\ possiveis[i].STATUS = "REVISAR"
                  /\ \E k \in LinhasDivergentesFin : out[k].fin_ref = possiveis[i].fin_ref
                  /\ ~ \E k \in LinhasOK : out[k].fin_ref = possiveis[i].fin_ref
                  /\ \/ f.TIPO_FIN = "ENTRADA" /\ r.TIPO_CONTABIL = "DEBITO"
                     \/ f.TIPO_FIN = "SAIDA" /\ r.TIPO_CONTABIL = "CREDITO"
                  /\ Abs(f.VALOR_FIN - r.VALOR_CONTABIL) <= ToleranciaRevisao
                  /\ f.DATA_FIN # NaT /\ r.DATA_CONTABIL # NaT
                  /\ Abs(Dia(f.DATA_FIN) - Dia(r.DATA_CONTABIL)) <= 1

\* a pair the review pass is to report: matching type, amount within the
\* review tolerance, both dates known and at most one day apart
ParQualificado(f, r) ==
    /\ r.TIPO_CONTABIL = (IF f.TIPO_FIN = "ENTRADA" THEN "DEBITO" ELSE "CREDITO")
    /\ Abs(f.VALOR_FIN - r.VALOR_CONTABIL) <= ToleranciaRevisao
    /\ f.DATA_FIN # NaT /\ r.DATA_CONTABIL # NaT
    /\ Abs(Dia(f.DATA_FIN) - Dia(r.DATA_CONTABIL)) <= 1

\* C23: with date columns on both sides, every DIVERGENTE financial record
\* and every accounting record, used or not, that qualify as a pair are on
\* exactly one REVISAR row.
C23_RevisaoCompleta ==
    (pc = "revisado" /\ usar_data) =>
        \A k \in LinhasDivergentesFin : \A n \in DOMAIN cont_df :
            ParQualificado(FinDaLinha(k), cont_df[n]) =>
                Cardinality({i \in DOMAIN possiveis :
                                /\ possiveis[i].fin_ref = out[k].fin_ref
                                /\ possiveis[i].cont_ref = <<cont_df[n].idx>>}) = 1

\* C29: the financial date on a REVISAR row is the date of the financial
\* record whose DIVERGENTE row it was derived from.
C29_DataDoProprioRegistro ==
    pc = "revisado" =>
        \A i \in DOMAIN possiveis :
            possiveis[i].DATA_RELATORIO_FINANCEIRO = FinDaRevisao(i).DATA_FIN

\* C2: no accounting record is the accounting side of two OK rows, the
\* accounting side of every OK row is in usados_cont, and no record of
\* usados_cont is among the candidates scored for the next financial record.
C2_ConsumoUnico ==
    /\ \A k1, k2 \in LinhasOK : out[k1].cont_ref = out[k2].cont_ref => k1 = k2
    /\ \A k \in LinhasOK : out[k].cont_ref[1] \in usados_cont
    /\ (pc = "conciliar" /\ pos <= Len(fin_df)) =>
           \A c \in Elegiveis(fin_df[pos], usados_cont) : cont_df[c].idx \notin usados_cont

\* C2 witness: a financial record ended DIVERGENTE although an accounting
\* record consumed by an earlier OK row would otherwise have been eligible.
C2_Witness ==
    /\ pc = "conciliado"
    /\ \E k1, k2 \in DOMAIN out :
          /\ k1 < k2
          /\ out[k1].STATUS = "OK"
          /\ out[k2].STATUS = "DIVERGENTE" /\ out[k2].fin_ref # Vazio
          /\ \E c \in Elegiveis(FinDaLinha(k2), {}) : <<cont_df[c].idx>> = out[k1].cont_ref

\* C3: on every OK row the two amounts differ by at most the tolerance and
\* DIF is that absolute difference.
C3_ToleranciaRespeitada ==
    \A k \in LinhasOK :
        LET d == out[k].VALOR_RELATORIO_FINANCEIRO - out[k].VALOR_RELATORIO_CONTABIL
        IN  /\ d <= tolerancia /\ -d <= tolerancia
            /\ out[k].DIF = (IF d < 0 THEN -d ELSE d)

\* C3 witness: an OK row whose amounts differ by exactly the tolerance.
C3_Witness ==
    \E k \in LinhasOK : out[k].DIF = tolerancia /\ out[k].DIF > 0

\* C4: an OK row pairs ENTRADA with DEBITO or SAIDA with CREDITO, nothing else.
C4_PareamentoTipos ==
    \A k \in LinhasOK :
        \/ /\ out[k].TIPO_RELATORIO_FINANCEIRO = "ENTRADA"
           /\ out[k].TIPO_RELATORIO_CONTABIL = "DEBITO"
        \/ /\ out[k].TIPO_RELATORIO_FINANCEIRO = "SAIDA"
           /\ out[k].TIPO_RELATORIO_CONTABIL = "CREDITO"

\* C4 witness: one run holding an ENTRADA-DEBITO row and a SAIDA-CREDITO row.
C4_Witness ==
    /\ \E k \in LinhasOK : out[k].TIPO_RELATORIO_FINANCEIRO = "ENTRADA"
    /\ \E k \in LinhasOK : out[k].TIPO_RELATORIO_FINANCEIRO = "SAIDA"

\* C5: the pair of every OK row has text containment, numeric containment or
\* identifier containment; and the ledgers holding only 'FT-12345' 1500.00
\* outflow and 'PAGTO FT12345 FORNECEDOR' 1500.00 credit end as one OK row
\* with difference 0.
C5_EvidenciaExigida ==
    /\ \A k \in LinhasOK :
          LET f == FinDaLinha(k)
              r == ContDaLinha(k)
          IN  \/ Contains(r.HIST_NORM, f.TEXTO_FIN_NORM)
              \/ /\ Len(f.TEXTO_FIN_NUM) > 0 /\ Len(r.HIST_NUM) > 0
                 /\ Contains(r.HIST_NUM, f.TEXTO_FIN_NUM)
              \/ /\ Len(f.IDENTIFICADOR_FIN) >= 6 /\ Len(r.IDENTIFICADOR) > 0
                 /\ Contains(r.IDENTIFICADOR, f.IDENTIFICADOR_FIN)
    /\ ( /\ pc = "conciliado"
         /\ Len(fin_rows) = 1 /\ fin_rows[1].titulo = T_FT12345 /\ fin_rows[1].saidas = 1500000
         /\ Len(cont_rows) = 1 /\ cont_rows[1].historico = H_PAGTO
         /\ cont_rows[1].credito = 1500000 )
       => (Len(out) = 1 /\ out[1].STATUS = "OK" /\ out[1].DIF = 0)

\* C5 witness: the ledgers 'FT-12345' x 'PAGTO FT12345 FORNECEDOR' have run
\* at the default tolerance.
C5_Witness ==
    /\ pc = "conciliado" /\ tolerancia = 10
    /\ Len(out) = 1 /\ out[1].STATUS = "OK" /\ out[1].DIF = 0
    /\ out[1].TEXTO_RELATORIO_FINANCEIRO = T_FT12345
    /\ out[1].HISTORICO_RELATORIO_CONTABIL = H_PAGTO
    /\ out[1].VALOR_RELATORIO_FINANCEIRO = 1500000

-----------------------------------------------------------------------------
(* Properties of the invoice x receipt engine                              *)

\* sum of the net values, by position
RECURSIVE SomaLiquidos(_, _)
SomaLiquidos(buckets, n) ==
    IF n = 0 THEN 0 ELSE SomaLiquidos(buckets, n - 1) + buckets[n].valor_liquido

MatchesDaNota(numero) == {k \in DOMAIN matches : matches[k].nf_numero = numero}
MatchesDoRec(numero)  == {k \in DOMAIN matches : matches[k].rec_numero = numero}
MatchingFeito == pc_cli \in {"relatorio", "fim"}

C7_UmMatchPorNF ==
    MatchingFeito => \A i \in DOMAIN nfs : Cardinality(MatchesDaNota(nfs[i].numero)) <= 1

\* C8 (as claimed): no receipt is in more than one entry of matches.
C8_RecebimentoConsumido ==
    MatchingFeito =>
        \A i \in DOMAIN recebimentos : Cardinality(MatchesDoRec(recebimentos[i].numero)) <= 1

\* C9: after realizar_matching an invoice bucket is in nao_encontrados_nf
\* exactly when it is in no match, a receipt bucket is in nao_encontrados_rec
\* exactly when it is in no match, and no bucket is listed twice as leftover.
C9_ParticaoSobras ==
    MatchingFeito =>
        /\ \A i \in DOMAIN nfs :
              Cardinality({k \in DOMAIN nao_encontrados_nf :
                              nao_encontrados_nf[k].numero = nfs[i].numero})
                = (IF MatchesDaNota(nfs[i].numero) = {} THEN 1 ELSE 0)
        /\ \A i \in DOMAIN recebimentos :
              Cardinality({k \in DOMAIN nao_encontrados_rec :
                              nao_encontrados_rec[k].numero = recebimentos[i].numero})
                = (IF MatchesDoRec(recebimentos[i].numero) = {} THEN 1 ELSE 0)
        /\ \A k \in DOMAIN nao_encontrados_nf : nao_encontrados_nf[k] \in Range(nfs)
        /\ \A k \in DOMAIN nao_encontrados_rec : nao_encontrados_rec[k] \in Range(recebimentos)

\* C9 witness: a run with a match and with a leftover on each side.
C9_Witness ==
    /\ MatchingFeito
    /\ matches # <<>>
    /\ nao_encontrados_nf # <<>>
    /\ nao_encontrados_rec # <<>>

\* C24: an invoice bucket and a receipt bucket are taken as a match exactly
\* when their net values differ by at most 0.01; a pair that differs by
\* exactly 0.01 is matched, a pair that differs by more is not.
C24_LimiteDaTolerancia ==
    MatchingFeito =>
        \A i \in DOMAIN nfs : \A j \in DOMAIN recebimentos :
            (Abs(nfs[i].valor_liquido - recebimentos[j].valor_liquido) <= 10)
                <=> \E k \in DOMAIN matches :
                        /\ matches[k].nf_numero = nfs[i].numero
                        /\ matches[k].rec_numero = recebimentos[j].numero

\* the ledger line recorded under sheet row n
LancamentoDaLinha(lancs, n) == lancs[CHOOSE k \in DOMAIN lancs : lancs[k].linha = n]

RECURSIVE SomaDebito(_, _)
SomaDebito(lancs, linhas) ==
    IF linhas = <<>> THEN 0
    ELSE LancamentoDaLinha(lancs, Head(linhas)).debito + SomaDebito(lancs, Tail(linhas))

RECURSIVE SomaCredito(_, _)
SomaCredito(lancs, linhas) ==
    IF linhas = <<>> THEN 0
    ELSE LancamentoDaLinha(lancs, Head(linhas)).credito + SomaCredito(lancs, Tail(linhas))

\* the totals of every bucket are the sums over its own lines, its net value
\* is sinal * (debit - credit), every bucket has a line, no two buckets
\* share a number and the buckets stand in the order of their first lines
BucketsSomados(buckets, lancs, sinal) ==
    /\ \A k \in DOMAIN buckets :
          /\ buckets[k].lancamentos # <<>>
          /\ buckets[k].total_debito = SomaDebito(lancs, buckets[k].lancamentos)
          /\ buckets[k].total_credito = SomaCredito(lancs, buckets[k].lancamentos)
          /\ buckets[k].valor_liquido =
                 sinal * (buckets[k].total_debito - buckets[k].total_credito)
    /\ \A k, l \in DOMAIN buckets :
          k < l => /\ buckets[k].numero # buckets[l].numero
                   /\ buckets[k].lancamentos[1] < buckets[l].lancamentos[1]

\* every bucket is still there, under the same number, with its lines kept
BucketsMantidos(antes, depois) ==
    /\ Len(antes) <= Len(depois)
    /\ \A k \in DOMAIN antes :
          /\ depois[k].numero = antes[k].numero
          /\ Len(antes[k].lancamentos) <= Len(depois[k].lancamentos)
          /\ SubSeq(depois[k].lancamentos, 1, Len(antes[k].lancamentos)) = antes[k].lancamentos

\* C25: after every step the totals of each invoice and receipt bucket are
\* the sums of debit and credit over exactly the lines appended to it, an
\* invoice's net value is debit - credit and a receipt's credit - debit; a
\* bucket appears with the first line of a new number and is never deleted.
C25_InvarianteDeNetting ==
    [][ /\ BucketsSomados(nfs', lancamentos', 1)
        /\ BucketsSomados(recebimentos', lancamentos', -1)
        /\ BucketsMantidos(nfs, nfs')
        /\ BucketsMantidos(recebimentos, recebimentos') ]_vars

C25_Witness ==
    /\ pc_cli = "fim"
    /\ nfs # <<>>
    /\ \E k \in DOMAIN recebimentos :
          /\ Len(recebimentos[k].lancamentos) >= 2
          /\ recebimentos[k].total_debito > 0
          /\ recebimentos[k].total_credito > 0

\* sheet row n was appended to one of the buckets
EmBucket(buckets, n) == \E k \in DOMAIN buckets : n \in Range(buckets[k].lancamentos)

\* C26: a line dated outside the window changes no bucket; a line inside it
\* reaches an invoice bucket exactly when its lot starts with the invoice
\* prefix and a number can be extracted, and a receipt bucket exactly when
\* its lot starts with the receipt prefix or its description has the
\* receipt keyword and a number can be extracted; a line that reaches no
\* bucket of a kind leaves the buckets of that kind as they were.
C26_Roteamento ==
    [][ (pc_cli = "processar_lancamentos" /\ row_num <= Len(razao)) =>
          LET row == razao[row_num]
              n   == row_num + 2
              naJanela == /\ row.data # NaT
                          /\ Dia(data_inicio) <= Dia(row.data)
                          /\ Dia(row.data) <= Dia(data_fim)
          IN  /\ EmBucket(nfs', n) <=>
                     /\ naJanela
                     /\ StartsWith(row.lote, LOTE_NF)
                     /\ NumeroNF[row.historico] # <<>>
              /\ EmBucket(recebimentos', n) <=>
                     /\ naJanela
                     /\ StartsWith(row.lote, LOTE_REC) \/ TemRecebim[row.historico]
                     /\ NumeroRec[row.historico] # <<>>
              /\ ~EmBucket(nfs', n) => nfs' = nfs
              /\ ~EmBucket(recebimentos', n) => recebimentos' = recebimentos ]_vars

C26_Witness ==
    /\ pc_cli = "fim"
    /\ \E k \in DOMAIN razao : razao[k].data = <<40>>
    /\ \E k \in DOMAIN lancamentos :
          lancamentos[k].historico = H_AJUSTE /\ ~EmBucket(nfs, lancamentos[k].linha)
    /\ \E k \in DOMAIN lancamentos :
          lancamentos[k].lote = <<>> /\ EmBucket(recebimentos, lancamentos[k].linha)

\* the items of the confrontation that carry the number of invoice nf
ItensDe(itens, nf) == {i \in DOMAIN itens : itens[i].nf_numero = nf.numero}

\* C28: the confrontation examines exactly the invoices realizar_matching
\* left unmatched; each of them is on exactly one of the two lists, and on
\* the list of the found ones exactly when its number equals a reference,
\* is part of a reference, or, without its leading zeros and not empty, is
\* part of a reference.
C28_Confronto ==
    confronto.feito =>
        LET titulos == TitulosDe(planilha_fin.linhas)
            vistos  == confronto.encontrados \o confronto.nao_encontrados
        IN  /\ Len(vistos) = Len(nao_encontrados_nf)
            /\ \A i \in DOMAIN vistos :
                  \E k \in DOMAIN nao_encontrados_nf :
                      nao_encontrados_nf[k].numero = vistos[i].nf_numero
            /\ \A i \in DOMAIN vistos :
                  ~ \E k \in DOMAIN matches : matches[k].nf_numero = vistos[i].nf_numero
            /\ \A k \in DOMAIN nao_encontrados_nf :
                  LET nf    == nao_encontrados_nf[k]
                      curto == SemZerosEsquerda(nf.numero)
                      nasReferencias ==
                          \E i \in DOMAIN titulos :
                              \/ titulos[i] = nf.numero
                              \/ Contains(titulos[i], nf.numero)
                              \/ curto # <<>> /\ Contains(titulos[i], curto)
                  IN  /\ Cardinality(ItensDe(confronto.encontrados, nf))
                           + Cardinality(ItensDe(confronto.nao_encontrados, nf)) = 1
                      /\ nasReferencias <=> ItensDe(confronto.encontrados, nf) # {}
                      /\ \A i \in ItensDe(confronto.encontrados, nf) :
                            confronto.encontrados[i].status = "ENCONTRADO"
                      /\ \A i \in ItensDe(confronto.nao_encontrados, nf) :
                            confronto.nao_encontrados[i].status = "NAO ENCONTRADO"

C28_Witness ==
    /\ confronto.feito
    /\ matches # <<>>
    /\ \E i \in DOMAIN confronto.encontrados :
          /\ confronto.encontrados[i].nf_numero \notin RefsFinanceiro(TitulosDe(planilha_fin.linhas))
          /\ ~ \E t \in DOMAIN planilha_fin.linhas :
                  Contains(planilha_fin.linhas[t].b, confronto.encontrados[i].nf_numero)

\* C30: no ledger line is aggregated into both an invoice bucket and a
\* receipt bucket.
C30_SemDuplaContagem ==
    \A k \in DOMAIN lancamentos :
        ~ (EmBucket(nfs, lancamentos[k].linha) /\ EmBucket(recebimentos, lancamentos[k].linha))

-----------------------------------------------------------------------------
(* Property of the normaliser                                              *)

\* C10 (as claimed): normalising a normalised text changes nothing.
C10_Idempotencia == pc_norm = "duas" => txt_n2 = txt_n1

====
